---- MODULE Spec2Model ----
(***************************************************************************)
(* A model of the school-peaky-minds web application: the JSON-file record *)
(* store for leads and agreements, the derived status of a record, the     *)
(* telegram whitelist, and the lazily constructed Telethon client.         *)
(*                                                                         *)
(* Each subsystem has its own specification over the shared variables:     *)
(*   Spec           the lead/agreement store, updated by the web admin     *)
(*                  process and by the bot process (load and save steps    *)
(*                  interleave between the two processes)                  *)
(*   SpecDerive     status_from_item / agreement_status_from_item as pure  *)
(*                  functions of a record and the current time             *)
(*   SpecWhitelist  load_whitelist, the whitelist endpoints, get_admin_ids *)
(*   SpecTelethon   get_telethon_lock / get_telethon_client on one loop    *)
(*   SpecMeta       the updates of tags, note and next_contact             *)
(*   SpecLoad       save_lead / save_agreement and load_leads /            *)
(*                  load_agreements over a directory of record files       *)
(*   SpecDates      filter_items and within_dates                          *)
(*   SpecPages      the limit and page parameters and paginate             *)
(*   SpecSort       sort_items with the key maps of the admin panel        *)
(*   SpecExport     the admin list and the CSV exports of one request      *)
(*   SpecStale      the stale leads of the admin panel                     *)
(*   SpecPipeline   the pipeline buckets of the admin panel                *)
(*   SpecAuth       the admin's mutation endpoints and the bot's commands  *)
(*                  from sessions and users with and without rights        *)
(*   SpecContract   the send and sign requests for an agreement's contract *)
(*   SpecLogin      the login by an email code                             *)
(*   SpecForms      /apply and /enroll with their notifications, and the   *)
(*                  funnel counts of the metrics document                  *)
(***************************************************************************)
EXTENDS Integers, Sequences, FiniteSets, TLC

VARIABLES
    \* ---- whitelist (core.py, routes/admin.py)
    wlFile,            \* content of data/telegram_whitelist.json
    WHITELIST_IDS,     \* core.WHITELIST_IDS, the in-memory list
    wlLast,            \* the last whitelist operation with the list read or the input
    \* ---- Telethon client (core.py)
    loopRunning,       \* an asyncio event loop is running
    telethonEnabled,   \* TELETHON_ENABLED and a usable api id
    telethon_lock,     \* core._telethon_lock: 0 is None, n the n-th Lock made
    lockHolder,        \* task holding the lock, 0 when unlocked
    lockWaiters,       \* FIFO of tasks suspended in Lock.acquire
    telethon_client,   \* core._telethon_client: 0 is None, n the n-th client made
    clientConnected,   \* _telethon_client.is_connected()
    tpc,               \* position of each task in get_telethon_client
    tret,              \* what each task's call returned
    \* ---- the clock and the derived status (routes/admin.py, telegram_bot.py)
    now,               \* time.time(), in hours
    viewItem,          \* the record whose status is being derived
    viewKind,          \* "lead" or "agreement"
    viewed,            \* the derived statuses computed last, <<>> before
    \* ---- the record store (core.py, routes/admin.py, telegram_bot.py)
    files,             \* content of each record file of data/leads and data/agreements
    pc,                \* per process: "idle", or "loaded" between load_json and save_json
    req,               \* per process: the update request it handles or handled last
    data,              \* per process: the dict in memory, loaded and modified
    ret,               \* per process: how the last request ended
    stale,             \* per process: the file it loaded was rewritten before it saved
    \* ---- listing the records (core.py, telegram_bot.py)
    saved,             \* the last save_lead / save_agreement: <<file name, payload>>
    listed,            \* the last load_leads / load_agreements: <<function, result>>
    \* ---- the admin panel's query functions (core.py, routes/admin.py)
    args,              \* the arguments of the call
    result,            \* what it returned, <<>> before the call
    \* ---- the forms and the metrics document (routes/forms.py, core.py)
    metricsFile,       \* data/metrics.json: None when missing, else its funnel counts
    formFiles,         \* the lead and agreement files written, in order
    fpc,               \* position of each request in apply / enroll
    freq,              \* the request each one handles
    fres,              \* the response and the outcome of its notification
    \* ---- the contract of an agreement (routes/contracts.py)
    contractFile,      \* the agreement file with its contract fields
    cpc,               \* position of each request in contract_send
    creq,              \* the agreement and the channel a waiting send holds
    cres,              \* the last response: <<request, outcome>>
    \* ---- the login by an email code (routes/auth.py)
    seconds,           \* time.time()
    codesFile,         \* data/email_codes.json: per email None or its entry
    usersFile,         \* data/users.json: the ids of the users stored
    session,           \* the user set_current_user stored last, None before
    lastIssue,         \* per email the code issued last with its time (history)
    loginLast          \* the last login request with its response

wlVars == <<wlFile, WHITELIST_IDS, wlLast>>
teleVars == <<loopRunning, telethonEnabled, telethon_lock, lockHolder, lockWaiters,
              telethon_client, clientConnected, tpc, tret>>
viewVars == <<viewItem, viewKind, viewed>>
storeVars == <<files, pc, req, data, ret, stale>>
loadVars == <<saved, listed>>
callVars == <<args, result>>
formVars == <<metricsFile, formFiles, fpc, freq, fres>>
contractVars == <<contractFile, cpc, creq, cres>>
loginVars == <<seconds, codesFile, usersFile, session, lastIssue, loginLast>>
siteVars == <<formVars, contractVars, loginVars>>
vars == <<wlVars, teleVars, now, viewVars, storeVars, loadVars, callVars, siteVars>>

\* What the actions of one subsystem leave alone.
notWl == <<teleVars, now, viewVars, storeVars, loadVars, callVars, siteVars>>
notTele == <<wlVars, now, viewVars, storeVars, loadVars, callVars, siteVars>>
notView == <<wlVars, teleVars, storeVars, loadVars, callVars, siteVars>>
notStore == <<wlVars, teleVars, viewVars, loadVars, callVars, siteVars>>
notLoad == <<wlVars, teleVars, now, viewVars, pc, req, data, ret, stale, callVars, siteVars>>
notForm == <<wlVars, teleVars, now, viewVars, storeVars, loadVars, callVars,
             contractVars, loginVars>>
notContract == <<wlVars, teleVars, viewVars, storeVars, loadVars, callVars,
                 formVars, loginVars>>
notLogin == <<wlVars, teleVars, now, viewVars, storeVars, loadVars, callVars,
              formVars, contractVars>>
notCall == <<wlVars, teleVars, now, viewVars, storeVars, loadVars, siteVars>>

\* The subsystems at rest, for the specifications that do not exercise them.
WlIdle ==
    /\ wlFile = <<"missing">>
    /\ WHITELIST_IDS = <<>>
    /\ wlLast = <<"boot", <<>>>>

TeleIdle ==
    /\ loopRunning = FALSE
    /\ telethonEnabled = FALSE
    /\ telethon_lock = 0
    /\ lockHolder = 0
    /\ lockWaiters = <<>>
    /\ telethon_client = 0
    /\ clientConnected = FALSE
    /\ tpc = <<>>
    /\ tret = <<>>

ViewIdle ==
    /\ viewItem = <<>>
    /\ viewKind = "lead"
    /\ viewed = <<>>

StoreIdle ==
    /\ files = <<>>
    /\ pc = <<>>
    /\ req = <<>>
    /\ data = <<>>
    /\ ret = <<>>
    /\ stale = <<>>

LoadIdle ==
    /\ saved = <<>>
    /\ listed = <<>>

CallIdle ==
    /\ args = <<>>
    /\ result = <<>>

FormIdle ==
    /\ metricsFile = <<>>
    /\ formFiles = <<>>
    /\ fpc = <<>>
    /\ freq = <<>>
    /\ fres = <<>>

ContractIdle ==
    /\ contractFile = <<>>
    /\ cpc = <<>>
    /\ creq = <<>>
    /\ cres = <<>>

LoginIdle ==
    /\ seconds = 0
    /\ codesFile = <<>>
    /\ usersFile = <<>>
    /\ session = <<>>
    /\ lastIssue = <<>>
    /\ loginLast = <<>>

SiteIdle == FormIdle /\ ContractIdle /\ LoginIdle

\* ------------------------------------------------------------------------
\* Generic helpers
\* ------------------------------------------------------------------------

Range(s) == {s[i] : i \in 1..Len(s)}

Front(s) == SubSeq(s, 1, Len(s) - 1)

Last(s) == s[Len(s)]

SeqsUpTo(S, n) == UNION {[1..k -> S] : k \in 0..n}

\* A value that may be absent (a missing dict key, None): <<>> or <<v>>.
None == <<>>

Some(v) == <<v>>

Opt(S) == {None} \cup {Some(v) : v \in S}

\* ------------------------------------------------------------------------
\* Derived status
\* ------------------------------------------------------------------------

\* Time is counted in hours: timedelta(days=1) is 24.
Day == 24

\* The clock's reading in the initial state.
StartTime == 1

Week == 7 * Day

\* The keys of STATUS_META (the same in routes/admin.py and telegram_bot.py).
STATUS_META ==
    {"new", "contacted", "qualified", "call_scheduled", "paid", "lost",
     "in_progress", "closed", "archived"}

\* The keys of AGREEMENT_STATUS_META.
AGREEMENT_STATUS_META == {"signed", "paid", "review", "canceled"}

\* str.strip() on the strings the model uses.
Strip(str) ==
    CASE str = " paid " -> "paid"
      [] str = " " -> ""
      [] OTHER -> str

\* str.lower() on the strings the model uses.
Lower(str) ==
    CASE str = "PAID" -> "paid"
      [] str = "AUTO" -> "auto"
      [] str = "ALL" -> "all"
      [] OTHER -> str

\* (item.get("status") or "").strip()
ManualStatus(item) ==
    IF item.status = None THEN "" ELSE Strip(item.status[1])

\* The age rule shared by both status_from_item functions; ts is
\* item.get("timestamp").
AgeStatus(ts, clock) ==
    IF ts = None \/ ts = Some(0) THEN "archived"
    ELSE IF clock - ts[1] <= Day THEN "new"
    ELSE IF clock - ts[1] <= Week THEN "in_progress"
    ELSE "archived"

\* A status_from_item whose first bound is exclusive.
status_from_item_strict(item, clock) ==
    IF ManualStatus(item) \in STATUS_META THEN ManualStatus(item)
    ELSE IF item.timestamp = None \/ item.timestamp = Some(0) THEN "archived"
    ELSE IF clock - item.timestamp[1] < Day THEN "new"
    ELSE IF clock - item.timestamp[1] <= Week THEN "in_progress"
    ELSE "archived"

\* routes/admin.py status_from_item: the status key it returns.
status_from_item(item, clock) ==
    IF ManualStatus(item) \in STATUS_META THEN ManualStatus(item)
    ELSE AgeStatus(item.timestamp, clock)

\* telegram_bot.py status_from_item: the status key it returns.
bot_status_from_item(item, clock) ==
    IF ManualStatus(item) \in STATUS_META THEN ManualStatus(item)
    ELSE AgeStatus(item.timestamp, clock)

\* An agreement_status_from_item that falls back to the age rule of leads.
agreement_status_by_age(item, clock) ==
    IF ManualStatus(item) \in AGREEMENT_STATUS_META THEN ManualStatus(item)
    ELSE AgeStatus(item.timestamp, clock)

\* routes/admin.py agreement_status_from_item: the status key it returns.
agreement_status_from_item(item, clock) ==
    IF ManualStatus(item) \in AGREEMENT_STATUS_META THEN ManualStatus(item)
    ELSE "signed"

\* ------------------------------------------------------------------------
\* Whitelist
\* ------------------------------------------------------------------------

\* Longest list of items a whitelist file holds at process start.
MaxWl == 3

\* Most tokens the text of a whitelist form carries.
MaxForm == 2

target_admin_id == 1547353132

default_ids == <<980343575, 1065558838, 1547353132>>

\* Other telegram ids that occur in whitelist files, forms and sessions.
OtherIds == {111, 222}

AllIds == OtherIds \cup {target_admin_id}

\* One element of a JSON list or one token of the form text: <<n>> converts
\* with int() to n, <<>> is an element int() rejects.
Tokens == {<<n>> : n \in AllIds} \cup {<<>>}

\* cleaned: int(item) for each item, the items int() rejects dropped.
RECURSIVE CleanInts(_)
CleanInts(items) ==
    IF items = <<>> THEN <<>>
    ELSE LET rest == CleanInts(Tail(items))
         IN  IF Len(Head(items)) = 1 THEN <<Head(items)[1]>> \o rest ELSE rest

\* The file: <<"missing">>, <<"notalist">> (unparseable, or JSON that is no
\* list) or <<"list", items>>.
FileOfIds(ids) == <<"list", [i \in 1..Len(ids) |-> <<ids[i]>>]>>

\* load_json(WHITELIST_FILE, default_ids) after the file was created when missing.
WhitelistData(file) ==
    IF file[1] = "list" THEN CleanInts(file[2]) ELSE default_ids

WhitelistCleaned(file) ==
    IF WhitelistData(file) = <<>> THEN default_ids ELSE WhitelistData(file)

\* A load_whitelist that appends the admin id instead of placing it before the
\* last entry.
PlaceAdminLast(cleaned) ==
    IF target_admin_id \notin Range(cleaned) THEN Append(cleaned, target_admin_id)
    ELSE cleaned

\* The reordering of load_whitelist, on the cleaned list.
PlaceAdmin(cleaned) ==
    IF target_admin_id \notin Range(cleaned)
    THEN IF Len(cleaned) >= 2
         THEN Front(cleaned) \o <<target_admin_id, Last(cleaned)>>
         ELSE Append(cleaned, target_admin_id)
    ELSE IF Len(cleaned) >= 2 /\ Last(cleaned) = target_admin_id
         THEN SubSeq(cleaned, 1, Len(cleaned) - 2)
                  \o <<target_admin_id, cleaned[Len(cleaned) - 1]>>
         ELSE cleaned

load_whitelist(file) == PlaceAdmin(WhitelistCleaned(file))

\* A load_whitelist that never calls save_whitelist.
FileAfterLoadNoSave(file) ==
    IF file[1] = "missing" THEN FileOfIds(default_ids) ELSE file

\* The file after load_whitelist: created with default_ids when missing,
\* rewritten when the list was changed.
FileAfterLoad(file) ==
    LET created == IF file[1] = "missing" THEN FileOfIds(default_ids) ELSE file
        cleaned == WhitelistCleaned(file)
    IN  IF PlaceAdmin(cleaned) # cleaned THEN FileOfIds(PlaceAdmin(cleaned))
        ELSE created

\* A get_admin_ids that takes the last entry for the admin.
AdminIdsLastOnly(ids) ==
    IF Len(ids) <= 1 THEN Range(ids) ELSE {Last(ids)}

get_admin_ids(ids) ==
    IF Len(ids) <= 1 THEN Range(ids) ELSE Range(Front(ids))

\* A session user: <<>> (nobody logged in), or <<provider, id>>.
Sessions ==
    {<<>>, <<"google", target_admin_id>>} \cup {<<"telegram", n>> : n \in AllIds}

is_admin_user(user, ids) ==
    /\ user # <<>>
    /\ user[1] = "telegram"
    /\ user[2] \in get_admin_ids(ids)

\* admin_required(request) lets the request through.
admin_required(user, ids) == is_admin_user(user, ids)

\* The module-level WHITELIST_IDS = load_whitelist(), at every process start.
Startup ==
    /\ WHITELIST_IDS' = load_whitelist(wlFile)
    /\ wlFile' = FileAfterLoad(wlFile)
    /\ wlLast' = <<"load", WhitelistCleaned(wlFile)>>
    /\ UNCHANGED notWl

\* admin_update_whitelist up to its assignment: <<"denied">>, <<"kept">> or
\* <<"write", ids>>.
update_whitelist_outcome(user, raw) ==
    IF ~admin_required(user, WHITELIST_IDS) THEN <<"denied">>
    ELSE IF CleanInts(raw) # <<>> THEN <<"write", CleanInts(raw)>>
    ELSE <<"kept">>

\* An admin_remove_whitelist without the `if ids:` of its last lines.
remove_whitelist_outcome_any(user, target) ==
    IF ~admin_required(user, WHITELIST_IDS) THEN <<"denied">>
    ELSE <<"write", SelectSeq(WHITELIST_IDS, LAMBDA item : item # target)>>

\* admin_remove_whitelist up to its assignment.
remove_whitelist_outcome(user, target) ==
    LET ids == SelectSeq(WHITELIST_IDS, LAMBDA item : item # target)
    IN  IF ~admin_required(user, WHITELIST_IDS) THEN <<"denied">>
        ELSE IF ids # <<>> THEN <<"write", ids>>
        ELSE <<"kept">>

\* core.WHITELIST_IDS = ids; save_whitelist(ids), when the outcome has ids.
WhitelistWritten(outcome) ==
    IF outcome[1] = "write"
    THEN /\ WHITELIST_IDS' = outcome[2]
         /\ wlFile' = FileOfIds(outcome[2])
    ELSE UNCHANGED <<WHITELIST_IDS, wlFile>>

\* POST /admin/whitelist; wlLast keeps whether the text held an integer.
admin_update_whitelist(user, raw) ==
    /\ wlLast[1] # "boot"
    /\ WhitelistWritten(update_whitelist_outcome(user, raw))
    /\ wlLast' = IF update_whitelist_outcome(user, raw)[1] = "denied"
                 THEN <<"denied", <<>>>>
                 ELSE <<"update", IF CleanInts(raw) = <<>> THEN "no_integer"
                                  ELSE "integers">>
    /\ UNCHANGED notWl

\* POST /admin/whitelist/remove; wlLast keeps the id to remove.
admin_remove_whitelist(user, target) ==
    /\ wlLast[1] # "boot"
    /\ WhitelistWritten(remove_whitelist_outcome(user, target))
    /\ wlLast' = IF remove_whitelist_outcome(user, target)[1] = "denied"
                 THEN <<"denied", <<>>>>
                 ELSE <<"remove", target>>
    /\ UNCHANGED notWl

WhitelistFiles ==
    {<<"missing">>, <<"notalist">>} \cup {<<"list", s>> : s \in SeqsUpTo(Tokens, MaxWl)}

InitWhitelist ==
    /\ wlFile \in WhitelistFiles
    /\ WHITELIST_IDS = <<>>
    /\ wlLast = <<"boot", <<>>>>
    /\ TeleIdle /\ ViewIdle /\ StoreIdle /\ LoadIdle /\ CallIdle /\ SiteIdle
    /\ now = StartTime

NextWhitelist ==
    \/ Startup
    \/ \E user \in Sessions, raw \in SeqsUpTo(Tokens, MaxForm) :
           admin_update_whitelist(user, raw)
    \/ \E user \in Sessions, target \in AllIds : admin_remove_whitelist(user, target)

SpecWhitelist == InitWhitelist /\ [][NextWhitelist]_vars

\* ------------------------------------------------------------------------
\* The Telethon client: get_telethon_lock and get_telethon_client, called by
\* tasks of one event loop.  A task runs without interruption from one await
\* to the next.
\* ------------------------------------------------------------------------

\* Number of tasks that call get_telethon_client.
NumTasks == 3

Tasks == 1..NumTasks

\* get_telethon_lock: the value of _telethon_lock after the call; 0 when
\* asyncio.get_running_loop() raised and no Lock was made.  Locks are numbered
\* in the order of their construction.
LockAfterGet(lock, running) ==
    IF lock = 0
    THEN IF running THEN 1 ELSE 0
    ELSE lock

\* A get_telethon_client that constructs a client on every call.
ClientAfterCheckAlways(client) == client + 1

\* `if _telethon_client is None: _telethon_client = TelegramClient(...)`:
\* clients are numbered in the order of their construction.
ClientAfterCheck(client) ==
    IF client = 0 THEN 1 ELSE client

\* The body of `async with get_telethon_lock():` up to its first await, run by
\* task t once it holds the lock.
CriticalSection(t) ==
    /\ telethon_client' = ClientAfterCheck(telethon_client)
    /\ IF ~clientConnected \/ telethon_client' # telethon_client
       THEN \* a client just made is not connected: await connect()
            /\ tpc' = [tpc EXCEPT ![t] = "connecting"]
            /\ lockHolder' = t
            /\ clientConnected' = FALSE
            /\ UNCHANGED tret
       ELSE \* return _telethon_client; __aexit__ releases the lock
            /\ tpc' = [tpc EXCEPT ![t] = "done"]
            /\ tret' = [tret EXCEPT ![t] = <<"client", telethon_client'>>]
            /\ lockHolder' = 0
            /\ UNCHANGED clientConnected

\* asyncio.run(...): the event loop starts.
StartLoop ==
    /\ ~loopRunning
    /\ loopRunning' = TRUE
    /\ UNCHANGED <<telethonEnabled, telethon_lock, lockHolder, lockWaiters,
                   telethon_client, clientConnected, tpc, tret, notTele>>

\* get_telethon_lock() called while no loop runs (from synchronous code, before
\* asyncio.run): get_running_loop() raises RuntimeError and _telethon_lock
\* stays as it was.
GetLockOutsideLoop ==
    /\ ~loopRunning
    /\ telethon_lock' = LockAfterGet(telethon_lock, loopRunning)
    /\ UNCHANGED <<loopRunning, telethonEnabled, lockHolder, lockWaiters,
                   telethon_client, clientConnected, tpc, tret, notTele>>

\* Task t calls get_telethon_client and runs to its first suspension.
CallGetClient(t) ==
    /\ loopRunning
    /\ tpc[t] = "idle"
    /\ IF ~telethonEnabled
       THEN /\ tpc' = [tpc EXCEPT ![t] = "done"]
            /\ tret' = [tret EXCEPT ![t] = <<"none">>]
            /\ UNCHANGED <<telethon_lock, lockHolder, lockWaiters, telethon_client,
                           clientConnected>>
       ELSE /\ telethon_lock' = LockAfterGet(telethon_lock, loopRunning)
            /\ IF lockHolder = 0 /\ lockWaiters = <<>>
               THEN \* Lock.acquire returns at once
                    /\ CriticalSection(t)
                    /\ UNCHANGED lockWaiters
               ELSE \* Lock.acquire suspends the task
                    /\ tpc' = [tpc EXCEPT ![t] = "waiting"]
                    /\ lockWaiters' = Append(lockWaiters, t)
                    /\ UNCHANGED <<lockHolder, telethon_client, clientConnected, tret>>
    /\ UNCHANGED <<loopRunning, telethonEnabled, notTele>>

\* The first waiter is woken by the release and takes the lock.
AcquireLock(t) ==
    /\ tpc[t] = "waiting"
    /\ lockHolder = 0
    /\ lockWaiters # <<>>
    /\ Head(lockWaiters) = t
    /\ lockWaiters' = Tail(lockWaiters)
    /\ CriticalSection(t)
    /\ UNCHANGED <<loopRunning, telethonEnabled, telethon_lock, notTele>>

\* await _telethon_client.connect() returns; the client is returned and the
\* lock released.
ConnectDone(t) ==
    /\ tpc[t] = "connecting"
    /\ clientConnected' = TRUE
    /\ tpc' = [tpc EXCEPT ![t] = "done"]
    /\ tret' = [tret EXCEPT ![t] = <<"client", telethon_client>>]
    /\ lockHolder' = 0
    /\ UNCHANGED <<loopRunning, telethonEnabled, telethon_lock, lockWaiters,
                   telethon_client, notTele>>

\* await _telethon_client.connect() raises: the exception leaves the
\* `async with`, which releases the lock; the call returns no handle.
ConnectFail(t) ==
    /\ tpc[t] = "connecting"
    /\ tpc' = [tpc EXCEPT ![t] = "done"]
    /\ tret' = [tret EXCEPT ![t] = <<"raised">>]
    /\ lockHolder' = 0
    /\ UNCHANGED <<loopRunning, telethonEnabled, telethon_lock, lockWaiters,
                   telethon_client, clientConnected, notTele>>

\* The connection of the client drops.
Disconnect ==
    /\ clientConnected
    /\ clientConnected' = FALSE
    /\ UNCHANGED <<loopRunning, telethonEnabled, telethon_lock, lockHolder, lockWaiters,
                   telethon_client, tpc, tret, notTele>>

\* The caller of task t goes on to a next request.
TaskAgain(t) ==
    /\ tpc[t] = "done"
    /\ tpc' = [tpc EXCEPT ![t] = "idle"]
    /\ UNCHANGED <<loopRunning, telethonEnabled, telethon_lock, lockHolder, lockWaiters,
                   telethon_client, clientConnected, tret, notTele>>

InitTelethon ==
    /\ loopRunning = FALSE
    /\ telethonEnabled \in BOOLEAN
    /\ telethon_lock = 0
    /\ lockHolder = 0
    /\ lockWaiters = <<>>
    /\ telethon_client = 0
    /\ clientConnected = FALSE
    /\ tpc = [t \in Tasks |-> "idle"]
    /\ tret = [t \in Tasks |-> <<"pending">>]
    /\ WlIdle /\ ViewIdle /\ StoreIdle /\ LoadIdle /\ CallIdle /\ SiteIdle
    /\ now = StartTime

NextTelethon ==
    \/ StartLoop
    \/ GetLockOutsideLoop
    \/ \E t \in Tasks : CallGetClient(t)
    \/ \E t \in Tasks : AcquireLock(t)
    \/ \E t \in Tasks : ConnectDone(t)
    \/ \E t \in Tasks : ConnectFail(t)
    \/ Disconnect
    \/ \E t \in Tasks : TaskAgain(t)

SpecTelethon == InitTelethon /\ [][NextTelethon]_vars

\* ---- Claims on the Telethon client ------------------------------------

\* C2: however many get_telethon_client calls run concurrently on one event
\* loop, at most one Lock is ever made and only while the loop runs, at most
\* one client is ever constructed, and every call that returned a handle
\* returned that one client.
C2_OneLockOneClient ==
    /\ telethon_lock \in {0, 1}
    /\ telethon_lock # 0 => loopRunning
    /\ telethon_client \in {0, 1}
    /\ \A t \in Tasks : tret[t][1] = "client" => tret[t] = <<"client", 1>>

\* C2 witness: two calls have returned the client while a third call, made
\* while the lock was held, is still suspended in acquire.
C2_Witness ==
    \E t1, t2, t3 \in Tasks :
        /\ t1 # t2
        /\ tpc[t1] = "done" /\ tret[t1] = <<"client", telethon_client>>
        /\ tpc[t2] = "done" /\ tret[t2] = <<"client", telethon_client>>
        /\ tpc[t3] = "waiting"
        /\ telethon_client = 1

\* ------------------------------------------------------------------------
\* The record store: one JSON file per lead and per agreement, updated by the
\* web process (admin endpoints) and by the bot process (commands and status
\* buttons).  An update is a load_json, a change of the dict in memory and a
\* save_json; the two processes take no lock, so their steps interleave.
\* ------------------------------------------------------------------------

\* Largest number of times the clock advances in the store's specification.
MaxTicks == 2

\* Hours by which the clock advances at a time there.
TickHours == 96

LeadNames == {"lead_1.json"}

AgreementNames == {"agreement_1.json"}

FileNames == LeadNames \cup AgreementNames

\* The file names a request may carry: "" is an empty `file` field.
Targets == FileNames \cup {""}

Procs == {"web", "bot"}

\* A record as a dict: each key absent (None) or present (Some(value)).  `name`
\* stands for the fields written at creation besides the timestamp.
DocKeys == {"timestamp", "name", "status", "status_updated_at", "tags", "note",
            "next_contact", "amount"}

EmptyDoc == [k \in DocKeys |-> None]

\* The payload of /apply or /enroll saved at time t.
NewDoc(t) == [EmptyDoc EXCEPT !.timestamp = Some(t), !.name = Some("Anna")]

\* A file is <<"missing">>, <<"corrupt">> (not JSON), <<"notdict">> (JSON, but
\* no object) or <<"dict", doc>>.
DictFile(doc) == <<"dict", doc>>

\* path.exists() for LEADS_DIR / name and AGREEMENTS_DIR / name.
LeadExists(name) == name \in LeadNames /\ files[name][1] # "missing"

AgreementExists(name) == name \in AgreementNames /\ files[name][1] # "missing"

\* core.load_json(path, {}) of an existing file: the parsed value, {} when
\* the text does not parse.
core_load_json(content) ==
    CASE content[1] = "dict" -> content
      [] content[1] = "corrupt" -> DictFile(EmptyDoc)
      [] OTHER -> <<"notdict">>

\* telegram_bot.load_json(path, {}): the dict, {} for anything else.
bot_load_json(content) ==
    IF content[1] = "dict" THEN content[2] ELSE EmptyDoc

\* An update_lead_status that writes a dict of its own with the status only.
SetLeadStatusAlone(doc, status, clock) ==
    IF status # ""
    THEN [EmptyDoc EXCEPT !.status = Some(status), !.status_updated_at = Some(clock)]
    ELSE EmptyDoc

\* core.update_lead_status that keeps status_updated_at when clearing.
SetLeadStatusKeepStamp(doc, status, clock) ==
    IF status # ""
    THEN [doc EXCEPT !.status = Some(status), !.status_updated_at = Some(clock)]
    ELSE [doc EXCEPT !.status = None]

\* core.update_lead_status and the bot's update_lead_status, lines `if status:`
\* to the pops: the change made to the dict.
SetLeadStatus(doc, status, clock) ==
    IF status # ""
    THEN [doc EXCEPT !.status = Some(status), !.status_updated_at = Some(clock)]
    ELSE [doc EXCEPT !.status = None, !.status_updated_at = None]

\* An update_agreement_status that leaves a paid agreement paid.
SetAgreementStatusPaidFinal(doc, status) ==
    IF doc.status = Some("paid") THEN doc
    ELSE IF status # ""
    THEN [doc EXCEPT !.status = Some(status)]
    ELSE [doc EXCEPT !.status = None]

\* core.update_agreement_status: the change made to the dict.
SetAgreementStatus(doc, status) ==
    IF status # ""
    THEN [doc EXCEPT !.status = Some(status)]
    ELSE [doc EXCEPT !.status = None]

\* normalize_tags on the strings the model uses.
normalize_tags(raw) ==
    CASE raw = "vip,  hot" -> "vip, hot"
      [] raw = " , " -> ""
      [] OTHER -> raw

\* re.match(r"^\d{4}-\d{2}-\d{2}$", text) on the strings the model uses.
IsDateText(text) == text \in {"2026-02-05"}

\* admin_update_lead_meta: the change made to the dict by the form's fields.
SetLeadMeta(doc, form) ==
    LET tags == normalize_tags(form.tags)
        note == Strip(form.note)
        next_contact == Strip(form.next_contact)
    IN  [doc EXCEPT
            !.tags = IF tags # "" THEN Some(tags) ELSE None,
            !.note = IF note # "" THEN Some(note) ELSE None,
            !.next_contact = IF next_contact # "" /\ IsDateText(next_contact)
                             THEN Some(next_contact) ELSE None]

\* How a request ends before anything is written, or what it is about to
\* write: <<"denied">>, <<"rejected">>, <<"false">>, or <<"write", name, doc>>.

\* core.update_lead_status(file_name, status), up to save_json.
update_lead_status(file_name, status, clock) ==
    IF file_name = "" \/ ~LeadExists(file_name) THEN <<"false">>
    ELSE IF core_load_json(files[file_name])[1] # "dict" THEN <<"false">>
    ELSE <<"write", file_name,
           SetLeadStatus(core_load_json(files[file_name])[2], status, clock)>>

\* core.update_agreement_status(file_name, status), up to save_json.
update_agreement_status(file_name, status) ==
    IF file_name = "" \/ ~AgreementExists(file_name) THEN <<"false">>
    ELSE IF core_load_json(files[file_name])[1] # "dict" THEN <<"false">>
    ELSE <<"write", file_name,
           SetAgreementStatus(core_load_json(files[file_name])[2], status)>>

\* telegram_bot.update_lead_status(file_name, status), up to save_json.
bot_update_lead_status(file_name, status, clock) ==
    IF file_name = "" \/ ~LeadExists(file_name) THEN <<"false">>
    ELSE IF bot_load_json(files[file_name]) = EmptyDoc THEN <<"false">>
    ELSE <<"write", file_name,
           SetLeadStatus(bot_load_json(files[file_name]), status, clock)>>

\* telegram_bot.update_lead_fields(file_name, {key: value}), up to save_json.
update_lead_fields(file_name, key, value) ==
    IF file_name = "" \/ ~LeadExists(file_name) THEN <<"false">>
    ELSE IF bot_load_json(files[file_name]) = EmptyDoc THEN <<"false">>
    ELSE <<"write", file_name,
           [bot_load_json(files[file_name]) EXCEPT ![key] = Some(value)]>>

\* admin_update_lead_status / admin_update_agreement_status: the status passed
\* on to the update, from the form's text.
FormStatus(raw) ==
    IF Strip(raw) = "auto" THEN "" ELSE Strip(raw)

\* POST /admin/leads/status
admin_update_lead_status(user, file_name, raw, clock) ==
    IF ~admin_required(user, WHITELIST_IDS) THEN <<"denied">>
    ELSE update_lead_status(Strip(file_name), FormStatus(raw), clock)

\* POST /admin/agreements/status
admin_update_agreement_status(user, file_name, raw) ==
    IF ~admin_required(user, WHITELIST_IDS) THEN <<"denied">>
    ELSE update_agreement_status(Strip(file_name), FormStatus(raw))

\* An admin_update_lead_meta without its guard.
admin_update_lead_meta_unguarded(user, file_name, form) ==
    IF Strip(file_name) = "" \/ ~LeadExists(Strip(file_name)) THEN <<"false">>
    ELSE IF core_load_json(files[Strip(file_name)])[1] # "dict" THEN <<"false">>
    ELSE <<"write", Strip(file_name),
           SetLeadMeta(core_load_json(files[Strip(file_name)])[2], form)>>

\* POST /admin/leads/meta
admin_update_lead_meta(user, file_name, form) ==
    IF ~admin_required(user, WHITELIST_IDS) THEN <<"denied">>
    ELSE IF Strip(file_name) = "" \/ ~LeadExists(Strip(file_name)) THEN <<"false">>
    ELSE IF core_load_json(files[Strip(file_name)])[1] # "dict" THEN <<"false">>
    ELSE <<"write", Strip(file_name),
           SetLeadMeta(core_load_json(files[Strip(file_name)])[2], form)>>

\* parse_amount on the texts the model uses: the number as a text, None when
\* float() raises or the text is empty.
parse_amount(text) ==
    CASE text = "1 500,50" -> Some("1500.5")
      [] text = "" -> None
      [] text = "abc" -> None
      [] OTHER -> Some(text)

\* POST /admin/agreements/amount
admin_update_agreement_amount(user, file_name, amount_raw) ==
    IF ~admin_required(user, WHITELIST_IDS) THEN <<"denied">>
    ELSE IF Strip(file_name) = "" \/ ~AgreementExists(Strip(file_name)) THEN <<"false">>
    ELSE IF core_load_json(files[Strip(file_name)])[1] # "dict" THEN <<"false">>
    ELSE <<"write", Strip(file_name),
           [core_load_json(files[Strip(file_name)])[2] EXCEPT
               !.amount = parse_amount(Strip(amount_raw))]>>

\* telegram_bot.load_whitelist / current_whitelist: read from the file at
\* every command.
current_whitelist(file) ==
    IF file[1] # "list" \/ CleanInts(file[2]) = <<>> THEN Range(default_ids)
    ELSE Range(CleanInts(file[2]))

\* find_lead_file(token) for a token that is a file name: the name when the
\* file exists, "" (None) otherwise.
find_lead_file(token) ==
    IF token # "" /\ LeadExists(Strip(token)) THEN Strip(token) ELSE ""

\* The status the bot's /status passes on: parts[2].strip().lower(), with
\* auto, clear and reset turned into "".
BotStatusValue(raw) ==
    IF Lower(Strip(raw)) \in {"auto", "clear", "reset"} THEN "" ELSE Lower(Strip(raw))

\* The bot's /status <id> <status>
bot_status(user_id, token, raw, clock) ==
    IF user_id \notin current_whitelist(wlFile) THEN <<"denied">>
    ELSE IF BotStatusValue(raw) # "" /\ BotStatusValue(raw) \notin STATUS_META
         THEN <<"rejected">>
    ELSE IF find_lead_file(token) = "" THEN <<"rejected">>
    ELSE bot_update_lead_status(find_lead_file(token), BotStatusValue(raw), clock)

\* The status a status button passes on: "auto" turned into "".
CallbackStatusValue(status_key) ==
    IF status_key = "auto" THEN "" ELSE status_key

\* The bot's status buttons: callback data lead:<file>:<status>
bot_status_callback(user_id, lead_file, status_key, clock) ==
    IF user_id \notin current_whitelist(wlFile) THEN <<"denied">>
    ELSE IF CallbackStatusValue(status_key) # ""
            /\ CallbackStatusValue(status_key) \notin STATUS_META
         THEN <<"rejected">>
    ELSE bot_update_lead_status(lead_file, CallbackStatusValue(status_key), clock)

\* The bot's /note <id> <text>
bot_note(user_id, token, text) ==
    IF user_id \notin current_whitelist(wlFile) THEN <<"denied">>
    ELSE IF find_lead_file(token) = "" THEN <<"rejected">>
    ELSE update_lead_fields(find_lead_file(token), "note", Strip(text))

\* Process p handles request r up to its save_json: `outcome` is what the
\* handler computed.  A request that ends early leaves the files alone.  r is
\* <<operation, file name, value>>, the value being the status passed to the
\* update ("" for auto), the form of a meta update or the note's text.
Begin(p, r, outcome) ==
    /\ pc[p] = "idle"
    /\ IF outcome[1] = "write"
       THEN /\ pc' = [pc EXCEPT ![p] = "loaded"]
            /\ req' = [req EXCEPT ![p] = r]
            /\ data' = [data EXCEPT ![p] = outcome[3]]
            /\ ret' = [ret EXCEPT ![p] = "none"]
       ELSE /\ ret' = [ret EXCEPT ![p] = outcome[1]]
            /\ req' = [req EXCEPT ![p] = <<>>]
            /\ UNCHANGED <<pc, data>>
    /\ stale' = [stale EXCEPT ![p] = FALSE]
    /\ UNCHANGED <<files, now, notStore>>

\* A save that writes only the keys the request changed into the file as it
\* is now.
SavedContentMerged(p) ==
    IF files[req[p][2]][1] # "dict" THEN DictFile(data[p])
    ELSE DictFile([k \in DocKeys |->
             IF req[p][1] \in {"lead_status", "agreement_status", "bot_status",
                               "bot_callback"}
             THEN IF k \in {"status", "status_updated_at"}
                  THEN data[p][k] ELSE files[req[p][2]][2][k]
             ELSE IF k \in {"tags", "note", "next_contact"}
                  THEN data[p][k] ELSE files[req[p][2]][2][k]])

\* save_json(path, data): the whole file is replaced by the dict in memory.
SavedContent(p) == DictFile(data[p])

\* Process p reaches save_json and returns True.
Save(p) ==
    /\ pc[p] = "loaded"
    /\ files' = [files EXCEPT ![req[p][2]] = SavedContent(p)]
    /\ pc' = [pc EXCEPT ![p] = "idle"]
    /\ ret' = [ret EXCEPT ![p] = "true"]
    /\ data' = [data EXCEPT ![p] = <<>>]
    /\ stale' = [q \in Procs |->
                    IF q # p /\ pc[q] = "loaded" /\ req[q][2] = req[p][2]
                       /\ files'[req[p][2]] # files[req[p][2]]
                    THEN TRUE ELSE stale[q]]
    /\ UNCHANGED <<req, now, notStore>>

\* The clock advances.
StoreTick ==
    /\ now + TickHours <= StartTime + MaxTicks * TickHours
    /\ now' = now + TickHours
    /\ UNCHANGED <<storeVars, notStore>>

\* The sessions of the web requests: an admin and the viewer of the default
\* whitelist.
WebUsers == {<<"telegram", target_admin_id>>, <<"telegram", default_ids[2]>>}

\* The telegram users who write to the bot: one in the whitelist, one not.
BotUsers == {target_admin_id, 111}

WebStatusTexts == {"auto", " paid ", "PAID"}

BotStatusTexts == {"reset", "PAID", "bogus"}

CallbackTexts == {"paid", "PAID"}

NoteTexts == {"", "call"}

MetaForms == [tags : {""}, note : NoteTexts, next_contact : {""}]

WebLeadStatus ==
    \E user \in WebUsers, f \in Targets, raw \in WebStatusTexts :
        Begin("web", <<"lead_status", Strip(f), FormStatus(raw)>>,
              admin_update_lead_status(user, f, raw, now))

WebLeadMeta ==
    \E user \in WebUsers, f \in Targets, form \in MetaForms :
        Begin("web", <<"lead_meta", Strip(f), form>>,
              admin_update_lead_meta(user, f, form))

WebAgreementStatus ==
    \E user \in WebUsers, f \in Targets, raw \in WebStatusTexts :
        Begin("web", <<"agreement_status", Strip(f), FormStatus(raw)>>,
              admin_update_agreement_status(user, f, raw))

BotStatus ==
    \E user \in BotUsers, f \in Targets, raw \in BotStatusTexts :
        Begin("bot", <<"bot_status", Strip(f), BotStatusValue(raw)>>,
              bot_status(user, f, raw, now))

BotStatusCallback ==
    \E user \in BotUsers, f \in Targets, raw \in CallbackTexts :
        Begin("bot", <<"bot_callback", f, CallbackStatusValue(raw)>>,
              bot_status_callback(user, f, raw, now))

BotNote ==
    \E user \in BotUsers, f \in Targets :
        Begin("bot", <<"bot_note", Strip(f), "call">>, bot_note(user, f, "call"))

\* What a record file holds in the initial state: a record saved by /apply or
\* /enroll at StartTime, or something that is no record.
InitialContents == {<<"corrupt">>, <<"notdict">>, DictFile(NewDoc(StartTime))}

Init ==
    /\ now = StartTime
    /\ \E n \in FileNames, c \in InitialContents :
           files = [m \in FileNames |-> IF m = n THEN c ELSE <<"missing">>]
    /\ pc = [p \in Procs |-> "idle"]
    /\ req = [p \in Procs |-> <<>>]
    /\ data = [p \in Procs |-> <<>>]
    /\ ret = [p \in Procs |-> "none"]
    /\ stale = [p \in Procs |-> FALSE]
    /\ wlFile = FileAfterLoad(<<"missing">>)
    /\ WHITELIST_IDS = load_whitelist(<<"missing">>)
    /\ wlLast = <<"load", default_ids>>
    /\ TeleIdle /\ ViewIdle /\ LoadIdle /\ CallIdle /\ SiteIdle

Next ==
    \/ WebLeadStatus
    \/ WebLeadMeta
    \/ WebAgreementStatus
    \/ BotStatus
    \/ BotStatusCallback
    \/ BotNote
    \/ \E p \in Procs : Save(p)
    \/ StoreTick

Spec == Init /\ [][Next]_vars

\* ---- Claims on the record store -----------------------------------------

StatusOps == {"lead_status", "agreement_status", "bot_status", "bot_callback"}

\* Process p takes its save_json step.
Saves(p) == pc[p] = "loaded" /\ pc'[p] = "idle"

\* C1: an update is an unlocked load-modify-save, and the last writer wins:
\* whatever the file holds when a process saves (also a document another
\* process wrote after this one loaded), the stored document becomes exactly
\* the dict this process holds in memory.
C1_LastWriterWins ==
    [][\A p \in Procs :
          Saves(p) => files'[req[p][2]] = DictFile(data[p])]_vars

\* C1 witness: a lost update.  The bot loaded the lead, the web process then
\* saved status paid, and the bot saved its note over it: both updates
\* returned True and the stored lead has the note and no status.
C1_Witness ==
    /\ pc = [p \in Procs |-> "idle"]
    /\ ret = [p \in Procs |-> "true"]
    /\ stale["bot"]
    /\ req["bot"] = <<"bot_note", "lead_1.json", "call">>
    /\ req["web"] = <<"lead_status", "lead_1.json", "paid">>
    /\ files["lead_1.json"] = DictFile([NewDoc(StartTime) EXCEPT !.note = Some("call")])

\* Process p saves an "auto" status update.
AutoSaved(p) ==
    /\ Saves(p)
    /\ req[p][1] \in StatusOps
    /\ req[p][3] = ""

AdminUser == <<"telegram", target_admin_id>>

\* From the stored state of every existing record, an admin status update to
\* status s is about to write a document; `derived` is its derived status.
LeadUpdateGives(f, s, derived) ==
    LET out == admin_update_lead_status(AdminUser, f, s, now)
    IN  out[1] = "write" /\ status_from_item(out[3], now) = derived

AgreementUpdateGives(f, s, derived) ==
    LET out == admin_update_agreement_status(AdminUser, f, s)
    IN  out[1] = "write" /\ agreement_status_from_item(out[3], now) = derived

\* The web process saves a status update to s and the derived status of the
\* stored record is then as given.
WebStatusSaved(op, s) == Saves("web") /\ req["web"][1] = op /\ req["web"][3] = s

C10_StoredStatusRecognized ==
    \A f \in LeadNames :
        files[f][1] = "dict" =>
            /\ files[f][2].status = None \/ files[f][2].status[1] \in STATUS_META
            /\ files[f][2].status_updated_at # None => files[f][2].status # None

\* C11: an update of a record whose file is missing, holds unparseable JSON or
\* holds a JSON value that is no object returns false and leaves the store
\* unchanged, for core.update_lead_status / update_agreement_status and for
\* the bot's update_lead_status / update_lead_fields: the file is not
\* rewritten and no file is created.
C11_NoRecordNoWrite ==
    /\ [](\A f \in LeadNames : files[f][1] # "dict" =>
             \A s \in STATUS_META \cup {""} :
                 /\ update_lead_status(f, s, now) = <<"false">>
                 /\ bot_update_lead_status(f, s, now) = <<"false">>
                 /\ update_lead_fields(f, "note", "call") = <<"false">>)
    /\ [](\A f \in AgreementNames : files[f][1] # "dict" =>
             \A s \in AGREEMENT_STATUS_META \cup {""} :
                 update_agreement_status(f, s) = <<"false">>)
    /\ [][\A f \in FileNames : files[f][1] # "dict" => files'[f] = files[f]]_vars

\* ---- Updates of tags, note and next_contact ------------------------------

\* telegram_bot.normalize_tags on the strings the model uses: "#" becomes a
\* blank, and a text without any tag gives "".
bot_normalize_tags(raw) ==
    CASE raw = "#" -> ""
      [] raw = "#vip" -> "vip"
      [] OTHER -> raw

\* len(next_contact) == 10 on the strings the model uses.
HasLen10(text) == text \in {"2026-02-05"}

\* The bot's /tags <id> <tags>
bot_tags(user_id, token, raw) ==
    IF user_id \notin current_whitelist(wlFile) THEN <<"denied">>
    ELSE IF find_lead_file(token) = "" THEN <<"rejected">>
    ELSE update_lead_fields(find_lead_file(token), "tags", bot_normalize_tags(raw))

\* The bot's /next <id> <YYYY-MM-DD>
bot_next(user_id, token, raw) ==
    IF user_id \notin current_whitelist(wlFile) THEN <<"denied">>
    ELSE IF find_lead_file(token) = "" THEN <<"rejected">>
    ELSE IF Strip(raw) = "" \/ ~HasLen10(Strip(raw)) THEN <<"rejected">>
    ELSE update_lead_fields(find_lead_file(token), "next_contact", Strip(raw))

\* The third word of a /tags and of a /next message: split() leaves it
\* non-empty.
TagTexts == {"#", "#vip"}

NextTexts == {"2026-02-05", "soon"}

\* The forms posted to /admin/leads/meta.
AllMetaForms == [tags : {"", "vip,  hot"}, note : NoteTexts,
                 next_contact : {"", "2026-02-05"}]

WebLeadMetaAll ==
    \E user \in WebUsers, f \in LeadNames, form \in AllMetaForms :
        Begin("web", <<"lead_meta", Strip(f), form>>,
              admin_update_lead_meta(user, f, form))

BotTags ==
    \E user \in BotUsers, f \in LeadNames, raw \in TagTexts :
        Begin("bot", <<"bot_tags", Strip(f), bot_normalize_tags(raw)>>,
              bot_tags(user, f, raw))

BotNext ==
    \E user \in BotUsers, f \in LeadNames, raw \in NextTexts :
        Begin("bot", <<"bot_next", Strip(f), Strip(raw)>>, bot_next(user, f, raw))

NextMeta ==
    \/ WebLeadMetaAll
    \/ BotTags
    \/ BotNext
    \/ BotNote
    \/ \E p \in Procs : Save(p)

SpecMeta == Init /\ [][NextMeta]_vars

\* C12: after any sequence of updates of tags, note and next_contact, through
\* /admin/leads/meta and through the bot's /tags, /note and /next, no stored
\* lead has one of these keys with an empty-string value: an empty new value
\* removes the key.
C12_NoEmptyMetaStored ==
    \A f \in LeadNames :
        files[f][1] = "dict" =>
            \A k \in {"tags", "note", "next_contact"} : files[f][2][k] # Some("")

\* ---- Listing the records ---------------------------------------------------

\* The lead files and the agreement files of the data directory, each in the
\* order of their names: lead_<time>_<token>.json, agreement_<time>_<token>.json.
LeadFiles == <<"lead_1_aa.json", "lead_1_bb.json", "lead_2_aa.json">>

AgreementFiles == <<"agreement_1_aa.json", "agreement_2_aa.json">>

ListedFiles == Range(LeadFiles) \cup Range(AgreementFiles)

\* The place of a file name in the order of the names of its directory.
NameKey == [n \in ListedFiles |->
               IF n \in Range(LeadFiles)
               THEN CHOOSE i \in 1..Len(LeadFiles) : LeadFiles[i] = n
               ELSE CHOOSE i \in 1..Len(AgreementFiles) : AgreementFiles[i] = n]

\* The sequences that hold each element of S once.
PermsOf(S) == {q \in [1..Cardinality(S) -> S] : Range(q) = S}

\* LEADS_DIR.glob("lead_*.json"), AGREEMENTS_DIR.glob("agreement_*.json"): the
\* existing files of the directory, in any order.
Glob(dir) == PermsOf({n \in Range(dir) : files[n][1] # "missing"})

\* sorted(seq, key=...): a stable sort, ascending.
RECURSIVE Insert(_, _, _)
Insert(sorted, x, key) ==
    IF sorted = <<>> THEN <<x>>
    ELSE IF key[x] < key[Head(sorted)] THEN <<x>> \o sorted
    ELSE <<Head(sorted)>> \o Insert(Tail(sorted), x, key)

RECURSIVE StableSort(_, _)
StableSort(seq, key) ==
    IF seq = <<>> THEN <<>>
    ELSE Insert(StableSort(Front(seq), key), Last(seq), key)

Reverse(seq) == [i \in 1..Len(seq) |-> seq[Len(seq) + 1 - i]]

\* sorted(seq, key=..., reverse=True): descending, and elements with equal
\* keys keep the order they have in seq.
SortedReverse(seq, key) ==
    StableSort(seq, [x \in DOMAIN key |-> 0 - key[x]])

\* A listing of a directory taken as glob returns it.
UnsortedPaths(listing) == listing

\* sorted(DIR.glob(...)): the paths in the order of their names.
SortedPaths(listing) == StableSort(listing, NameKey)

\* A record as load_leads returns it: the dict with "_file" set.
ListedKeys == DocKeys \cup {"_file"}

WithFile(doc, name) ==
    [k \in ListedKeys |-> IF k = "_file" THEN Some(name) ELSE doc[k]]

\* core.load_leads / load_agreements: the loop over the paths.
RECURSIVE core_collect(_)
core_collect(paths) ==
    IF paths = <<>> THEN <<>>
    ELSE (IF core_load_json(files[Head(paths)])[1] = "dict"
          THEN <<WithFile(core_load_json(files[Head(paths)])[2], Head(paths))>>
          ELSE <<>>) \o core_collect(Tail(paths))

\* telegram_bot.load_leads: the loop over the paths (`if data:`).
RECURSIVE bot_collect(_)
bot_collect(paths) ==
    IF paths = <<>> THEN <<>>
    ELSE (IF bot_load_json(files[Head(paths)]) # EmptyDoc
          THEN <<WithFile(bot_load_json(files[Head(paths)]), Head(paths))>>
          ELSE <<>>) \o bot_collect(Tail(paths))

\* key=lambda item: item.get("timestamp", 0)
TimestampKey(items) ==
    [x \in Range(items) |-> IF x.timestamp = None THEN 0 ELSE x.timestamp[1]]

\* core.load_leads() and core.load_agreements(), given what glob returned.
load_leads(listing) ==
    SortedReverse(core_collect(SortedPaths(listing)),
                  TimestampKey(core_collect(SortedPaths(listing))))

load_agreements(listing) ==
    SortedReverse(core_collect(SortedPaths(listing)),
                  TimestampKey(core_collect(SortedPaths(listing))))

\* telegram_bot.load_leads(), given what glob returned.
bot_load_leads(listing) ==
    SortedReverse(bot_collect(SortedPaths(listing)),
                  TimestampKey(bot_collect(SortedPaths(listing))))

\* A save that stamps a payload that has no timestamp.
SavedPayloadStamped(payload) ==
    IF payload.timestamp = None
    THEN DictFile([payload EXCEPT !.timestamp = Some(now)])
    ELSE DictFile(payload)

\* save_json(path, payload) of save_lead / save_agreement: the file's content.
SavedPayload(payload) == DictFile(payload)

\* The payloads saved: an empty object and the payloads of forms posted at
\* StartTime and an hour later.
Payloads == {EmptyDoc, NewDoc(StartTime), NewDoc(StartTime + 1)}

\* save_lead(payload): the file name holds the time and a random token.
save_lead ==
    \E name \in Range(LeadFiles), payload \in Payloads :
        /\ files' = [files EXCEPT ![name] = SavedPayload(payload)]
        /\ saved' = <<name, payload>>
        /\ listed' = <<>>
        /\ UNCHANGED notLoad

\* save_agreement(payload)
save_agreement ==
    \E name \in Range(AgreementFiles), payload \in Payloads :
        /\ files' = [files EXCEPT ![name] = SavedPayload(payload)]
        /\ saved' = <<name, payload>>
        /\ listed' = <<>>
        /\ UNCHANGED notLoad

LoadLeads ==
    \E listing \in Glob(LeadFiles) :
        /\ listed' = <<"load_leads", load_leads(listing)>>
        /\ UNCHANGED <<files, saved, notLoad>>

LoadAgreements ==
    \E listing \in Glob(AgreementFiles) :
        /\ listed' = <<"load_agreements", load_agreements(listing)>>
        /\ UNCHANGED <<files, saved, notLoad>>

BotLoadLeads ==
    \E listing \in Glob(LeadFiles) :
        /\ listed' = <<"bot_load_leads", bot_load_leads(listing)>>
        /\ UNCHANGED <<files, saved, notLoad>>

\* What a file of the directory holds at the start.
LeadContents == {<<"missing">>, <<"corrupt">>, <<"notdict">>,
                 DictFile(NewDoc(StartTime)), DictFile(NewDoc(StartTime + 1))}

AgreementContents == {<<"missing">>, <<"corrupt">>, DictFile(NewDoc(StartTime))}

InitLoad ==
    /\ now = StartTime
    /\ files \in {f \in [ListedFiles -> LeadContents] :
                      \A n \in Range(AgreementFiles) : f[n] \in AgreementContents}
    /\ pc = <<>> /\ req = <<>> /\ data = <<>> /\ ret = <<>> /\ stale = <<>>
    /\ LoadIdle
    /\ WlIdle /\ TeleIdle /\ ViewIdle /\ CallIdle /\ SiteIdle

NextLoad ==
    \/ save_lead
    \/ save_agreement
    \/ LoadLeads
    \/ LoadAgreements
    \/ BotLoadLeads

SpecLoad == InitLoad /\ [][NextLoad]_vars

\* ---- Claims on listing the records ----------------------------------------

\* The directory a load function lists.
ListedDir == IF listed[1] = "load_agreements" THEN AgreementFiles ELSE LeadFiles

\* The places of the result that hold the record of file n.
PlacesOf(n) == {i \in 1..Len(listed[2]) : listed[2][i]["_file"] = Some(n)}

\* C13: load_leads / load_agreements (core and bot) skip corrupt files: a file
\* whose content is not valid JSON or is no JSON object contributes no record
\* to the result, and every other existing file yields its record, once, with
\* its file name attached as _file.
C13_CorruptFilesSkipped ==
    listed # <<>> =>
        \A n \in Range(ListedDir) :
            /\ files[n][1] \in {"missing", "corrupt", "notdict"} => PlacesOf(n) = {}
            /\ files[n][1] = "dict" =>
                   /\ Cardinality(PlacesOf(n)) = 1
                   /\ \A i \in PlacesOf(n) : listed[2][i] = WithFile(files[n][2], n)

\* The sort key of the i-th record of the result.
ListedKey(i) == TimestampKey(listed[2])[listed[2][i]]

\* C14: load_leads / load_agreements return the records ordered by timestamp
\* descending, records with equal timestamps in the order of their file names,
\* and the result does not depend on the order in which the directory was
\* listed.
C14_ByTimestampThenName ==
    listed # <<>> =>
        /\ \A i, j \in 1..Len(listed[2]) :
               i < j =>
                   \/ ListedKey(i) > ListedKey(j)
                   \/ /\ ListedKey(i) = ListedKey(j)
                      /\ NameKey[listed[2][i]["_file"][1]] < NameKey[listed[2][j]["_file"][1]]
        /\ \A listing \in Glob(ListedDir) :
               listed[2] = CASE listed[1] = "load_leads" -> load_leads(listing)
                             [] listed[1] = "load_agreements" -> load_agreements(listing)
                             [] OTHER -> bot_load_leads(listing)

\* C14 witness: load_leads returned the lead of the later hour first and the
\* two leads of the same hour after it, in the order of their file names.
C14_Witness ==
    listed = <<"load_leads",
               <<WithFile(NewDoc(StartTime + 1), "lead_1_bb.json"),
                 WithFile(NewDoc(StartTime), "lead_1_aa.json"),
                 WithFile(NewDoc(StartTime), "lead_2_aa.json")>>>>

MaxDate == 3

Dates == 0..MaxDate

\* datetime.fromtimestamp(int(timestamp)).date()
DateOf(ts) == ts \div Day

\* A within_dates whose bounds are exclusive.
within_dates_exclusive(timestamp, date_from, date_to) ==
    IF timestamp = None \/ timestamp = Some(0) THEN FALSE
    ELSE IF date_from # None /\ DateOf(timestamp[1]) <= date_from[1] THEN FALSE
    ELSE IF date_to # None /\ DateOf(timestamp[1]) >= date_to[1] THEN FALSE
    ELSE TRUE

\* core.within_dates(timestamp, date_from, date_to)
within_dates(timestamp, date_from, date_to) ==
    IF timestamp = None \/ timestamp = Some(0) THEN FALSE
    ELSE IF date_from # None /\ DateOf(timestamp[1]) < date_from[1] THEN FALSE
    ELSE IF date_to # None /\ DateOf(timestamp[1]) > date_to[1] THEN FALSE
    ELSE TRUE

\* (item.get("course") or "")
CourseOf(item) == IF item.course = None THEN "" ELSE item.course[1]

\* core.filter_items(items, course, date_from, date_to)
filter_items(items, course, date_from, date_to) ==
    LET SameCourse(item) == CourseOf(item) = course
        InDates(item) == within_dates(item.timestamp, date_from, date_to)
        filtered == IF course # "" THEN SelectSeq(items, SameCourse) ELSE items
    IN  IF date_from # None \/ date_to # None
        THEN SelectSeq(filtered, InDates)
        ELSE filtered

\* The records filtered: a timestamp at any hour of the model's dates but the
\* very first, or none; a course or none.
FilterRecords ==
    [timestamp : Opt(1..((MaxDate + 1) * Day - 1)), course : Opt({"qa"})]

InitDates ==
    /\ now = StartTime
    /\ args \in [item : FilterRecords, course : {"", "qa"},
                 date_from : Opt(Dates), date_to : Opt(Dates)]
    /\ result = <<>>
    /\ WlIdle /\ TeleIdle /\ ViewIdle /\ StoreIdle /\ LoadIdle /\ SiteIdle

FilterItems ==
    /\ result = <<>>
    /\ result' = <<"filter_items",
                   filter_items(<<args.item>>, args.course, args.date_from, args.date_to)>>
    /\ UNCHANGED <<args, notCall>>

NextDates == FilterItems

SpecDates == InitDates /\ [][NextDates]_vars

\* The timestamp ts, in hours, falls on the calendar date d.
OnDate(ts, d) == d * Day <= ts /\ ts < (d + 1) * Day

\* C16: the date filter is inclusive on both bounds: among the records the
\* course filter lets through, a record on the date date_from or date_to of a
\* range passes, one a day before date_from or a day after date_to fails; with
\* one bound given the other side is open; a record with no timestamp is
\* excluded when a bound is given and kept when none is.
C16_DateFilterInclusive ==
    (result # <<>> /\ (args.course = "" \/ args.item.course = Some(args.course))) =>
        LET ts == args.item.timestamp
            df == args.date_from
            dt == args.date_to
            kept == result[2] = <<args.item>>
            dropped == result[2] = <<>>
        IN  /\ kept \/ dropped
            /\ (df = None /\ dt = None) => kept
            /\ (ts = None /\ (df # None \/ dt # None)) => dropped
            /\ (ts # None /\ df # None /\ OnDate(ts[1], df[1])
                    /\ (dt = None \/ df[1] <= dt[1])) => kept
            /\ (ts # None /\ dt # None /\ OnDate(ts[1], dt[1])
                    /\ (df = None \/ df[1] <= dt[1])) => kept
            /\ (ts # None /\ df # None /\ OnDate(ts[1], df[1] - 1)) => dropped
            /\ (ts # None /\ dt # None /\ OnDate(ts[1], dt[1] + 1)) => dropped
            /\ (ts # None /\ df # None /\ dt = None) => (kept <=> ts[1] >= df[1] * Day)
            /\ (ts # None /\ df = None /\ dt # None) => (kept <=> ts[1] < (dt[1] + 1) * Day)
            /\ (ts # None /\ df # None /\ dt # None) =>
                   (kept <=> (ts[1] >= df[1] * Day /\ ts[1] < (dt[1] + 1) * Day))

\* C16 witness: a record of the last hour of date_to, in a range of two dates,
\* passes the filter.
C16_Witness ==
    /\ result # <<>>
    /\ args.date_from = Some(1) /\ args.date_to = Some(2)
    /\ args.item.timestamp = Some(2 * Day + Day - 1)
    /\ result[2] = <<args.item>>

\* ---- Pagination ------------------------------------------------------------

\* The longest list paginated.
MaxItems == 21

\* The page size of a request without a limit, and of one whose limit is no
\* number.
DefaultLimit == 20

\* The list of n records: the records stand for themselves.
Items(n) == [i \in 1..n |-> i]

\* int(text) on the strings the model uses: None when it raises.
IntOf(text) ==
    CASE text = "0" -> Some(0)
      [] text = "00" -> Some(0)
      [] text = "2" -> Some(2)
      [] text = "3" -> Some(3)
      [] text = "20" -> Some(20)
      [] text = "-1" -> Some(0 - 1)
      [] text = "99" -> Some(99)
      [] OTHER -> None

Max(a, b) == IF a >= b THEN a ELSE b

Min(a, b) == IF a <= b THEN a ELSE b

\* request.query_params.get("limit") or "20": the parameter is absent (None)
\* or a text.
limit_raw(param) ==
    IF param = None \/ param = Some("") THEN "20" ELSE param[1]

\* _admin_panel_impl, limit_value: None, or the page size.
limit_value(raw) ==
    IF raw # "" /\ Lower(raw) \notin {"all", "0"}
    THEN IF IntOf(raw) # None THEN Some(Max(IntOf(raw)[1], 1))
         ELSE Some(DefaultLimit)
    ELSE None

\* parse_page(value)
parse_page(value) ==
    IF value = None \/ value = Some("") THEN 1
    ELSE IF IntOf(value[1]) = None THEN 1
    ELSE Max(IntOf(value[1])[1], 1)

\* math.ceil(n / per_page)
Ceil(n, per_page) == (n + per_page - 1) \div per_page

\* items[start:end] of a list, start and end counted from 0.
Slice(items, start, end) ==
    SubSeq(items, Min(start, Len(items)) + 1, Min(end, Len(items)))

\* A paginate that counts the full pages only.
paginate_full_pages(items, page, per_page) ==
    IF per_page = None THEN <<items, 1, 1>>
    ELSE LET total_pages == Max(1, Len(items) \div per_page[1])
             clamped == Max(1, Min(page, total_pages))
         IN  <<Slice(items, (clamped - 1) * per_page[1],
                     (clamped - 1) * per_page[1] + per_page[1]),
               clamped, total_pages>>

\* A paginate that takes the page as it is given.
paginate_unclamped(items, page, per_page) ==
    IF per_page = None THEN <<items, 1, 1>>
    ELSE LET total_pages == Max(1, Ceil(Len(items), per_page[1]))
         IN  <<Slice(items, (page - 1) * per_page[1],
                     (page - 1) * per_page[1] + per_page[1]),
               page, total_pages>>

\* paginate(items, page, per_page): <<the slice, the page, total_pages>>
paginate(items, page, per_page) ==
    IF per_page = None THEN <<items, 1, 1>>
    ELSE LET total_pages == Max(1, Ceil(Len(items), per_page[1]))
             clamped == Max(1, Min(page, total_pages))
         IN  <<Slice(items, (clamped - 1) * per_page[1],
                     (clamped - 1) * per_page[1] + per_page[1]),
               clamped, total_pages>>

\* The limit and the page parameters of the requests.
LimitParams == Opt({"", "all", "ALL", "0", "00", "2", "3", "-1", "abc"})

PageParams == Opt({"0", "-1", "2", "3", "99", "abc"})

InitPages ==
    /\ now = StartTime
    /\ args \in [n : 0..MaxItems, limit : LimitParams, page : PageParams]
    /\ result = <<>>
    /\ WlIdle /\ TeleIdle /\ ViewIdle /\ StoreIdle /\ LoadIdle /\ SiteIdle

\* _admin_panel_impl: the page of the list shown.
Paginate ==
    /\ result = <<>>
    /\ result' = paginate(Items(args.n), parse_page(args.page),
                          limit_value(limit_raw(args.limit)))
    /\ UNCHANGED <<args, notCall>>

NextPages == Paginate

SpecPages == InitPages /\ [][NextPages]_vars

\* ---- Claims on pagination --------------------------------------------------

\* The pages 1..k of a list, one after the other.
RECURSIVE PagesUpTo(_, _, _)
PagesUpTo(items, per_page, k) ==
    IF k = 0 THEN <<>>
    ELSE PagesUpTo(items, per_page, k - 1) \o paginate(items, k, per_page)[1]

\* total is max(1, ceil(n / p)).
IsTotalPages(total, n, p) ==
    /\ total >= 1
    /\ total * p >= n
    /\ total > 1 => (total - 1) * p < n

\* C17: for every list of n records and every page size p > 0, total_pages is
\* max(1, ceil(n / p)), and the slices paginate returns for the pages
\* 1..total_pages, one after the other, are the list: every record once, in
\* the same order.
C17_PagesCoverTheList ==
    (result # <<>> /\ limit_value(limit_raw(args.limit)) # None) =>
        LET per_page == limit_value(limit_raw(args.limit))
        IN  /\ per_page[1] > 0
            /\ IsTotalPages(result[3], args.n, per_page[1])
            /\ PagesUpTo(Items(args.n), per_page, result[3]) = Items(args.n)
            /\ \A k \in 1..result[3] :
                   /\ paginate(Items(args.n), k, per_page)[2] = k
                   /\ paginate(Items(args.n), k, per_page)[3] = result[3]

\* C17 witness: 5 records, 2 a page: the third of 3 pages holds the fifth
\* record.
C17_Witness ==
    /\ args = [n |-> 5, limit |-> Some("2"), page |-> Some("3")]
    /\ result = <<<<5>>, 3, 3>>

\* The page a request asks for, before any clamping.
RequestedPage ==
    IF args.page = None THEN 1
    ELSE IF IntOf(args.page[1]) = None THEN 1
    ELSE IntOf(args.page[1])[1]

\* The result is page `page` of `total` pages of p records.
IsPage(page, total, p) ==
    /\ IsTotalPages(total, args.n, p)
    /\ result[2] = page
    /\ result[3] = total
    /\ result[1] = [i \in 1..Max(0, Min(p, args.n - (page - 1) * p)) |->
                       (page - 1) * p + i]

\* The requested page clamped into 1..total.
Clamped(total) ==
    IF RequestedPage < 1 THEN 1
    ELSE IF RequestedPage > total THEN total
    ELSE RequestedPage

\* The result is the clamped page of a list cut into pages of p records.
IsClampedPage(p) ==
    \E total \in 1..(args.n + 1) : IsPage(Clamped(total), total, p)

\* C18 (as stated in the specification): a limit of null, "all" or "0"
\* disables pagination, the whole list being page 1 of 1; for a limit that is
\* a number the requested page is clamped into [1, total_pages] and the
\* clamped page is the one reported.
C18_NullAllZeroDisable ==
    result # <<>> =>
        /\ args.limit \in {None, Some("all"), Some("0")} =>
               result = <<Items(args.n), 1, 1>>
        /\ (args.limit \notin {None, Some("0")} /\ IntOf(args.limit[1]) # None) =>
               IsClampedPage(Max(IntOf(args.limit[1])[1], 1))

\* C18 (amended): a limit of "all" or "0", in any letter case, disables
\* pagination, the whole list being page 1 of 1.  An absent or empty limit
\* and a limit that is no number mean pages of 20 records, a number below 1
\* means pages of 1 record, any other number is the page size.  For a page
\* size the requested page (1 when absent or no number) is clamped into
\* [1, total_pages], and the clamped page is the one reported and returned.
C18_AllZeroDisableDefaultTwenty ==
    result # <<>> =>
        IF args.limit # None /\ Lower(args.limit[1]) \in {"all", "0"}
        THEN result = <<Items(args.n), 1, 1>>
        ELSE IF args.limit \in {None, Some("")} THEN IsClampedPage(DefaultLimit)
        ELSE IF IntOf(args.limit[1]) = None THEN IsClampedPage(DefaultLimit)
        ELSE IsClampedPage(Max(IntOf(args.limit[1])[1], 1))

\* C18 witness: 21 records and no limit, page 99 asked for: the result is
\* page 2 of 2, holding the 21st record.
C18_Witness ==
    /\ args = [n |-> DefaultLimit + 1, limit |-> None, page |-> Some("99")]
    /\ result = <<<<DefaultLimit + 1>>, 2, 2>>

\* ---- Sorting the list ------------------------------------------------------

\* The latest timestamp of the records sorted, and the longest list sorted.
MaxStamp == 3

MaxSorted == 3

\* The place of a lower-case text in the order of the strings the model uses.
TextRank(text) ==
    CASE text = "" -> 0
      [] text = "anna" -> 1
      [] text = "boris" -> 2
      [] text = "fullstack" -> 3
      [] text = "qa" -> 4
      [] OTHER -> 5

\* (item.get(field) or "").lower() on the strings the model uses.
LowerOr(value) ==
    IF value = None THEN ""
    ELSE IF value[1] = "Anna" THEN "anna"
    ELSE Lower(value[1])

\* safe_int(item.get("timestamp", 0))
StampOf(item) == IF item.timestamp = None THEN 0 ELSE item.timestamp[1]

\* lead_sort_key: order_map.get(status_key, 3)
order_map(status_key) ==
    CASE status_key = "new" -> 0
      [] status_key = "contacted" -> 1
      [] status_key = "qualified" -> 2
      [] status_key = "call_scheduled" -> 3
      [] status_key = "paid" -> 4
      [] status_key = "lost" -> 5
      [] status_key = "in_progress" -> 2
      [] status_key = "closed" -> 6
      [] status_key = "archived" -> 7
      [] OTHER -> 3

\* The tuple (order, timestamp) of lead_sort_key as one number with the same
\* order: no timestamp reaches StampSpan.
StampSpan == (MaxDate + 1) * Day

lead_sort_key(item) ==
    order_map(status_from_item(item, now)) * StampSpan + StampOf(item)

\* key_map.get(sort_key) or key_map.get("date"), applied to an item, for
\* lead_key_map and agreement_key_map.
KeyOf(kind, sort_key, item) ==
    CASE sort_key = "name" -> TextRank(LowerOr(item.name))
      [] sort_key = "course" -> TextRank(LowerOr(item.course))
      [] sort_key = "status" /\ kind = "lead" -> lead_sort_key(item)
      [] OTHER -> StampOf(item)

\* A sort_items that sorts descending whatever the order.
SortDescending(order) == TRUE

\* sort_items: reverse = order != "asc"
SortReverse(order) == order # "asc"

\* sort_items(items, sort_key, order, key_map)
sort_items(items, sort_key, order, kind) ==
    LET key == [x \in Range(items) |-> KeyOf(kind, sort_key, x)]
    IN  IF SortReverse(order) THEN SortedReverse(items, key)
        ELSE StableSort(items, key)

\* The records sorted: leads and agreements with or without a timestamp, and
\* one with a manual status.
SortRecords ==
    [timestamp : Opt(1..MaxStamp), name : {Some("Anna"), Some("boris")},
     course : {None}, status : {None}]
    \cup {[timestamp |-> Some(1), name |-> Some("Anna"), course |-> None,
           status |-> Some("paid")]}

InitSort ==
    /\ now = StartTime
    /\ args \in [items : SeqsUpTo(SortRecords, MaxSorted),
                 sort : {"date", "name", "status", "rank"},
                 order : {"asc", "desc", "up"},
                 kind : {"lead", "agreement"}]
    /\ result = <<>>
    /\ WlIdle /\ TeleIdle /\ ViewIdle /\ StoreIdle /\ LoadIdle /\ SiteIdle

SortItems ==
    /\ result = <<>>
    /\ result' = <<"sort_items",
                   sort_items(args.items, args.sort, args.order, args.kind)>>
    /\ UNCHANGED <<args, notCall>>

NextSort == SortItems

SpecSort == InitSort /\ [][NextSort]_vars

\* The timestamps of the records are pairwise distinct.
DistinctStamps(items) ==
    \A i, j \in 1..Len(items) : i # j => StampOf(items[i]) # StampOf(items[j])

\* The sort is by date: the key asked for is "date" or one the kind's key
\* map does not know.
SortsByDate ==
    \/ args.sort \notin {"name", "course", "status"}
    \/ args.sort = "status" /\ args.kind = "agreement"

\* C19: for records with pairwise distinct timestamps, sort_items by date with
\* order "asc" is exactly the reverse of sort_items by date with order "desc";
\* an order other than "asc" sorts descending, and an unknown sort key sorts
\* by date.
C19_AscIsReverseOfDesc ==
    (result # <<>> /\ DistinctStamps(args.items) /\ SortsByDate) =>
        LET sorted == result[2]
            desc == sort_items(args.items, "date", "desc", args.kind)
        IN  /\ Len(sorted) = Len(args.items)
            /\ Range(sorted) = Range(args.items)
            /\ \A i \in 1..(Len(desc) - 1) : StampOf(desc[i]) > StampOf(desc[i + 1])
            /\ args.order = "asc" => sorted = Reverse(desc)
            /\ args.order # "asc" => sorted = desc
            /\ sorted = sort_items(args.items, "date", args.order, args.kind)

\* C19 witness: three leads with the timestamps 2, none and 3, sorted by the
\* unknown key "rank" in order "asc": the one without timestamp first, the
\* latest last.
C19_Witness ==
    /\ result # <<>>
    /\ args.sort = "rank" /\ args.order = "asc" /\ args.kind = "lead"
    /\ Len(args.items) = 3
    /\ StampOf(args.items[1]) = 2 /\ StampOf(args.items[2]) = 0
    /\ StampOf(args.items[3]) = 3
    /\ result[2] = <<args.items[2], args.items[1], args.items[3]>>

\* ---- The admin list and the CSV export --------------------------------------

\* parse_date(value) on the texts the model uses: "day-1" stands for the text
\* of the calendar date 1; None for a text that is no date.
parse_date(value) ==
    IF value = None THEN None
    ELSE IF value[1] = "day-1" THEN Some(1)
    ELSE None

\* extract_source(page) on the pages the model uses; "direct" stands for the
\* label of a lead without a referrer.
extract_source(page) ==
    CASE page = None -> "direct"
      [] page = Some("") -> "direct"
      [] page = Some("https://google.com/search") -> "Google"
      [] page = Some("https://school.example/?utm_source=vk") -> "vk"
      [] OTHER -> "direct"

\* `value in str(raw).lower()` on the strings the model uses.
Contains(text, value) ==
    \/ text = value
    \/ value = "ann" /\ text = "anna"
    \/ value = "goo" /\ text = "https://google.com/search"

\* matches_query(item, fields, query)
matches_query(item, fields, query) ==
    \/ query = ""
    \/ \E field \in fields :
           item[field] # None /\ Contains(LowerOr(item[field]), Lower(query))

\* apply_search(items, query, fields)
apply_search(items, query, fields) ==
    LET Matches(item) == matches_query(item, fields, query)
    IN  IF query = "" THEN items ELSE SelectSeq(items, Matches)

\* {**item, "_source": extract_source(item.get("page", ""))}
WithSource(item) ==
    [k \in DOMAIN item \cup {"_source"} |->
        IF k = "_source" THEN Some(extract_source(item.page)) ELSE item[k]]

\* [f(item) for item in items]
MapSeq(items, F(_)) == [i \in 1..Len(items) |-> F(items[i])]

\* The search fields of a kind that the model's records have (of name,
\* contact, course, page and of full_name, phone, email, telegram, course).
SearchFields(kind) ==
    IF kind = "lead" THEN {"name", "course", "page"} ELSE {"name", "course"}

\* request.query_params.get(name) or ""
ParamOr(param) == IF param = None THEN "" ELSE param[1]

\* _admin_panel_impl: the leads shown with the limit "all".
panel_leads(items, q) ==
    LET course == ParamOr(q.course)
        date_from == parse_date(Some(ParamOr(q.date_from)))
        date_to == parse_date(Some(ParamOr(q.date_to)))
        query == Strip(ParamOr(q.q))
        status_given == ParamOr(q.status)
        source_filter == ParamOr(q.source)
        sort == IF ParamOr(q.sort) = "" THEN "date" ELSE ParamOr(q.sort)
        order == IF ParamOr(q.order) = "" THEN "desc" ELSE ParamOr(q.order)
        filtered == filter_items(items, course, date_from, date_to)
        found == apply_search(filtered, query, SearchFields("lead"))
        sourced == MapSeq(found, WithSource)
        status_filter == IF status_given # "" /\ status_given \notin STATUS_META
                         THEN "" ELSE status_given
        HasStatus(item) == status_from_item(item, now) = status_filter
        HasSource(item) == item["_source"] = Some(source_filter)
        by_status == IF status_filter # "" THEN SelectSeq(sourced, HasStatus)
                     ELSE sourced
        by_source == IF source_filter # "" THEN SelectSeq(by_status, HasSource)
                     ELSE by_status
        sorted == sort_items(by_source, sort, order, "lead")
    IN  paginate(sorted, parse_page(q.leads_page), limit_value(limit_raw(q.limit)))[1]

\* _admin_panel_impl: the agreements shown with the limit "all".
panel_agreements(items, q) ==
    LET course == ParamOr(q.course)
        date_from == parse_date(Some(ParamOr(q.date_from)))
        date_to == parse_date(Some(ParamOr(q.date_to)))
        query == Strip(ParamOr(q.q))
        sort == IF ParamOr(q.sort) = "" THEN "date" ELSE ParamOr(q.sort)
        order == IF ParamOr(q.order) = "" THEN "desc" ELSE ParamOr(q.order)
        filtered == filter_items(items, course, date_from, date_to)
        found == apply_search(filtered, query, SearchFields("agreement"))
        sorted == sort_items(found, sort, order, "agreement")
    IN  paginate(sorted, parse_page(q.agreements_page),
                 limit_value(limit_raw(q.limit)))[1]

\* export_leads: lead_sort_key and lead_key_map; export_agreements:
\* agreement_key_map.
ExportKeyOf(kind, sort_key, item) ==
    CASE sort_key = "name" -> TextRank(LowerOr(item.name))
      [] sort_key = "course" -> TextRank(LowerOr(item.course))
      [] sort_key = "status" /\ kind = "lead" ->
             order_map(status_from_item(item, now)) * StampSpan + StampOf(item)
      [] OTHER -> StampOf(item)

\* sort_items as export_leads and export_agreements call it.
export_sort_items(items, sort_key, order, kind) ==
    LET key == [x \in Range(items) |-> ExportKeyOf(kind, sort_key, x)]
    IN  IF SortReverse(order) THEN SortedReverse(items, key)
        ELSE StableSort(items, key)

\* An export_leads without the source filter.
export_leads_any_source(items, q) ==
    LET course == ParamOr(q.course)
        date_from == parse_date(q.date_from)
        date_to == parse_date(q.date_to)
        query == Strip(ParamOr(q.q))
        status_filter == ParamOr(q.status)
        sort == IF ParamOr(q.sort) = "" THEN "date" ELSE ParamOr(q.sort)
        order == IF ParamOr(q.order) = "" THEN "desc" ELSE ParamOr(q.order)
        filtered == filter_items(items, course, date_from, date_to)
        found == apply_search(filtered, query, SearchFields("lead"))
        sourced == MapSeq(found, WithSource)
        HasStatus(item) == status_from_item(item, now) = status_filter
        by_status == IF status_filter # "" /\ status_filter \in STATUS_META
                     THEN SelectSeq(sourced, HasStatus) ELSE sourced
    IN  export_sort_items(by_status, sort, order, "lead")

\* An export_leads without the status filter.
export_leads_any_status(items, q) ==
    LET course == ParamOr(q.course)
        date_from == parse_date(q.date_from)
        date_to == parse_date(q.date_to)
        query == Strip(ParamOr(q.q))
        source_filter == ParamOr(q.source)
        sort == IF ParamOr(q.sort) = "" THEN "date" ELSE ParamOr(q.sort)
        order == IF ParamOr(q.order) = "" THEN "desc" ELSE ParamOr(q.order)
        filtered == filter_items(items, course, date_from, date_to)
        found == apply_search(filtered, query, SearchFields("lead"))
        sourced == MapSeq(found, WithSource)
        HasSource(item) == item["_source"] = Some(source_filter)
        by_source == IF source_filter # "" THEN SelectSeq(sourced, HasSource)
                     ELSE sourced
    IN  export_sort_items(by_source, sort, order, "lead")

\* export_leads: the records written as rows, in their order.
export_leads(items, q) ==
    LET course == ParamOr(q.course)
        date_from == parse_date(q.date_from)
        date_to == parse_date(q.date_to)
        query == Strip(ParamOr(q.q))
        status_filter == ParamOr(q.status)
        source_filter == ParamOr(q.source)
        sort == IF ParamOr(q.sort) = "" THEN "date" ELSE ParamOr(q.sort)
        order == IF ParamOr(q.order) = "" THEN "desc" ELSE ParamOr(q.order)
        filtered == filter_items(items, course, date_from, date_to)
        found == apply_search(filtered, query, SearchFields("lead"))
        sourced == MapSeq(found, WithSource)
        HasStatus(item) == status_from_item(item, now) = status_filter
        HasSource(item) == item["_source"] = Some(source_filter)
        by_status == IF status_filter # "" /\ status_filter \in STATUS_META
                     THEN SelectSeq(sourced, HasStatus) ELSE sourced
        by_source == IF source_filter # "" THEN SelectSeq(by_status, HasSource)
                     ELSE by_status
    IN  export_sort_items(by_source, sort, order, "lead")

\* export_agreements: the records written as rows, in their order.
export_agreements(items, q) ==
    LET course == ParamOr(q.course)
        date_from == parse_date(q.date_from)
        date_to == parse_date(q.date_to)
        query == Strip(ParamOr(q.q))
        sort == IF ParamOr(q.sort) = "" THEN "date" ELSE ParamOr(q.sort)
        order == IF ParamOr(q.order) = "" THEN "desc" ELSE ParamOr(q.order)
        filtered == filter_items(items, course, date_from, date_to)
        found == apply_search(filtered, query, SearchFields("agreement"))
    IN  export_sort_items(found, sort, order, "agreement")

\* The stored records in the order load_leads and load_agreements return
\* them: two of the same hour, an older one, and one without a timestamp
\* whose status is not a recognized key.
StoredRecords ==
    << [timestamp |-> Some(Day + 1), name |-> Some("Anna"), course |-> Some("qa"),
        page |-> Some(""), status |-> None],
       [timestamp |-> Some(Day + 1), name |-> Some("boris"),
        course |-> Some("fullstack"), page |-> Some("https://google.com/search"),
        status |-> Some("paid")],
       [timestamp |-> Some(1), name |-> Some("Anna"), course |-> Some("qa"),
        page |-> Some("https://google.com/search"), status |-> None],
       [timestamp |-> None, name |-> Some("boris"), course |-> None,
        page |-> Some("https://school.example/?utm_source=vk"),
        status |-> Some("PAID")] >>

\* The stored records at the places S, in their order.
Pick(S) ==
    LET Chosen(i) == i \in S
        places == SelectSeq([i \in 1..Len(StoredRecords) |-> i], Chosen)
    IN  [k \in 1..Len(places) |-> StoredRecords[places[k]]]

\* The query parameters of a request of the panel or of an export, with a
\* limit that disables the pagination.
ExportParams ==
    [course : Opt({"qa"}), date_from : Opt({"day-1", "junk"}),
     date_to : Opt({"day-1"}), q : Opt({"ann"}),
     status : Opt({"new", "bogus"}), source : Opt({"Google"}),
     sort : Opt({"name", "status"}), order : Opt({"asc"}),
     limit : {Some("all"), Some("0")},
     leads_page : {Some("2")}, agreements_page : {Some("2")}]

InitExport ==
    /\ now = StartTime + Day
    /\ args \in [items : {Pick(S) : S \in SUBSET (1..Len(StoredRecords))},
                 kind : {"lead", "agreement"}, q : ExportParams]
    /\ result = [list |-> None, export |-> None]
    /\ WlIdle /\ TeleIdle /\ ViewIdle /\ StoreIdle /\ LoadIdle /\ SiteIdle

\* GET /admin: the records shown.
AdminList ==
    /\ result.list = None
    /\ result' = [result EXCEPT !.list =
                     Some(IF args.kind = "lead" THEN panel_leads(args.items, args.q)
                          ELSE panel_agreements(args.items, args.q))]
    /\ UNCHANGED <<args, notCall>>

\* GET /admin/export/leads.csv and /admin/export/agreements.csv: the records
\* written.
ExportCsv ==
    /\ result.export = None
    /\ result' = [result EXCEPT !.export =
                     Some(IF args.kind = "lead" THEN export_leads(args.items, args.q)
                          ELSE export_agreements(args.items, args.q))]
    /\ UNCHANGED <<args, notCall>>

NextExport == AdminList \/ ExportCsv

SpecExport == InitExport /\ [][NextExport]_vars

\* C20: for the same stored records and the same filter, search and sort
\* parameters, the CSV export writes exactly the records the admin list shows
\* when its pagination is disabled, in the same order.
C20_ExportIsTheFullList ==
    (result.list # None /\ result.export # None) => result.export = result.list

\* C20 witness: of the four leads, the two whose status is "new" are shown
\* and exported, the older one first.
C20_Witness ==
    /\ result.list # None /\ result.export # None
    /\ args.kind = "lead" /\ Len(args.items) = Len(StoredRecords)
    /\ args.q.status = Some("new") /\ args.q.order = Some("asc")
    /\ args.q.sort = None
    /\ Len(result.export[1]) = 2
    /\ StampOf(result.export[1][1]) < StampOf(result.export[1][2])

\* The stored lead at place i passes the course, date and search parameters
\* of the request.
InBase(i) ==
    LET r == args.items[i]
        q == args.q
    IN  /\ q.course # None => r.course = q.course
        /\ q.date_from = Some("day-1") => r.timestamp # None /\ r.timestamp[1] >= Day
        /\ q.date_to = Some("day-1") => r.timestamp # None /\ r.timestamp[1] < 2 * Day
        /\ q.q = Some("ann") => r.name = Some("Anna")

\* The stored lead at place i has the status and the source the request asks
\* for; a status that is no key of STATUS_META asks for nothing.
StatusAndSource(i) ==
    LET r == args.items[i]
        q == args.q
    IN  /\ (q.status # None /\ q.status[1] \in STATUS_META) =>
               status_from_item(r, now) = q.status[1]
        /\ q.source # None => extract_source(r.page) = q.source[1]

\* The rows are the stored leads at the places S, each once, with its source.
IsLeadsAt(rows, S) ==
    /\ Len(rows) = Cardinality(S)
    /\ \A i \in S : \E k \in 1..Len(rows) : rows[k] = WithSource(args.items[i])

\* C21: the status and source filters are conjunctive: the leads listed and
\* the leads exported for status s and source x are exactly the leads of the
\* filtered set whose derived status is s and whose source label is x; a
\* status that is not recognized restricts nothing.
C21_StatusAndSourceConjunctive ==
    LET S == {i \in 1..Len(args.items) : InBase(i) /\ StatusAndSource(i)}
    IN  args.kind = "lead" =>
            /\ result.list # None => IsLeadsAt(result.list[1], S)
            /\ result.export # None => IsLeadsAt(result.export[1], S)

\* C21 witness: of four leads two are "new" and two come from Google; the
\* request for status new and source Google lists and exports the one lead
\* that is both.
C21_Witness ==
    /\ result.list # None /\ result.export # None
    /\ args.kind = "lead" /\ Len(args.items) = Len(StoredRecords)
    /\ args.q.status = Some("new") /\ args.q.source = Some("Google")
    /\ args.q.course = None /\ args.q.q = None
    /\ args.q.date_from = None /\ args.q.date_to = None
    /\ Cardinality({i \in 1..4 : status_from_item(args.items[i], now) = "new"}) = 2
    /\ Cardinality({i \in 1..4 : extract_source(args.items[i].page) = "Google"}) = 2
    /\ Len(result.list[1]) = 1 /\ Len(result.export[1]) = 1

\* ---- The forms /apply and /enroll and the funnel of the metrics document -----

\* The requests handled at a time by the one event loop of the web process.
Reqs == {1, 2}

\* The submissions and the page views of a run.
MaxSubmits == 2

MaxViews == 1

Stages == {"home", "login", "apply", "enroll"}

\* load_metrics: the default document's funnel.
DefaultFunnel == [k \in Stages |-> 0]

\* load_metrics(): the funnel of the document read.
load_metrics == IF metricsFile = None THEN DefaultFunnel ELSE metricsFile[1]

\* A counting that starts from the default document at each submission.
CountedFromDefault(funnel, stage) == [DefaultFunnel EXCEPT ![stage] = 1]

\* metrics["funnel"][stage] = metrics["funnel"].get(stage, 0) + 1
Counted(funnel, stage) == [funnel EXCEPT ![stage] = @ + 1]

\* A response that lets the exception of a failed send through.
ResponseUncaught(outcome) == IF outcome = "raised" THEN "error" ELSE "success"

\* apply and enroll after the send: False is logged, an Exception is caught
\* and logged, and the success page is rendered.
ResponseAfterSend(outcome) == "success"

\* The outcomes of `await send_lead_message(text)`: a message delivered to
\* some chat, none delivered, or an exception of the Bot or of closing its
\* session.
SendOutcomes == {"sent", "not_sent", "raised"}

\* The metrics middleware counting a page view of the home or the login page.
PageView(stage) ==
    /\ stage \in {"home", "login"}
    /\ load_metrics[stage] < MaxViews
    /\ metricsFile' = Some(Counted(load_metrics, stage))
    /\ UNCHANGED <<formFiles, fpc, freq, fres, notForm>>

\* A request arrives: POST /apply or /enroll, from a visitor or a logged-in
\* user, with the bot's token and whitelist configured or not.
Arrive(i, kind, user, configured) ==
    /\ fpc[i] = "idle"
    /\ fpc' = [fpc EXCEPT ![i] = "form"]
    /\ freq' = [freq EXCEPT ![i] = [kind |-> kind, user |-> user,
                                    configured |-> configured, file |-> 0]]
    /\ fres' = [fres EXCEPT ![i] = <<>>]
    /\ UNCHANGED <<metricsFile, formFiles, notForm>>

\* apply from the form to the send: save_lead, the funnel count, and without
\* a configured bot the success page.
apply(i) ==
    /\ fpc[i] = "form" /\ freq[i].kind = "apply"
    /\ Len(formFiles) < MaxSubmits
    /\ formFiles' = Append(formFiles, [kind |-> "lead", timestamp |-> now,
                                       user |-> freq[i].user, by |-> i])
    /\ metricsFile' = Some(Counted(load_metrics, "apply"))
    /\ IF freq[i].configured
       THEN /\ fpc' = [fpc EXCEPT ![i] = "send"]
            /\ UNCHANGED fres
       ELSE /\ fpc' = [fpc EXCEPT ![i] = "idle"]
            /\ fres' = [fres EXCEPT ![i] = <<"success", "not_configured">>]
    /\ freq' = [freq EXCEPT ![i].file = Len(formFiles) + 1]
    /\ UNCHANGED notForm

\* enroll from the form to the send: the redirect of a visitor, or
\* save_agreement, the funnel count, and without a configured bot the success
\* page.
enroll(i) ==
    /\ fpc[i] = "form" /\ freq[i].kind = "enroll"
    /\ IF ~freq[i].user
       THEN /\ fpc' = [fpc EXCEPT ![i] = "idle"]
            /\ fres' = [fres EXCEPT ![i] = <<"redirect", "none">>]
            /\ UNCHANGED <<formFiles, metricsFile, freq>>
       ELSE /\ Len(formFiles) < MaxSubmits
            /\ formFiles' = Append(formFiles, [kind |-> "agreement", timestamp |-> now,
                                               user |-> TRUE, by |-> i])
            /\ freq' = [freq EXCEPT ![i].file = Len(formFiles) + 1]
            /\ metricsFile' = Some(Counted(load_metrics, "enroll"))
            /\ IF freq[i].configured
               THEN /\ fpc' = [fpc EXCEPT ![i] = "send"]
                    /\ UNCHANGED fres
               ELSE /\ fpc' = [fpc EXCEPT ![i] = "idle"]
                    /\ fres' = [fres EXCEPT ![i] = <<"success", "not_configured">>]
    /\ UNCHANGED notForm

\* The send returns or raises, and the handler responds.
SendDone(i, outcome) ==
    /\ fpc[i] = "send"
    /\ fpc' = [fpc EXCEPT ![i] = "idle"]
    /\ fres' = [fres EXCEPT ![i] = <<ResponseAfterSend(outcome), outcome>>]
    /\ UNCHANGED <<metricsFile, formFiles, freq, notForm>>

InitForms ==
    /\ now = StartTime
    /\ metricsFile = None
    /\ formFiles = <<>>
    /\ fpc = [i \in Reqs |-> "idle"]
    /\ freq = [i \in Reqs |-> <<>>]
    /\ fres = [i \in Reqs |-> <<>>]
    /\ WlIdle /\ TeleIdle /\ ViewIdle /\ StoreIdle /\ LoadIdle /\ CallIdle
    /\ ContractIdle /\ LoginIdle

NextForms ==
    \/ \E stage \in {"home", "login"} : PageView(stage)
    \/ \E i \in Reqs, kind \in {"apply", "enroll"}, user \in BOOLEAN,
          configured \in BOOLEAN : Arrive(i, kind, user, configured)
    \/ \E i \in Reqs : apply(i)
    \/ \E i \in Reqs : enroll(i)
    \/ \E i \in Reqs, outcome \in SendOutcomes : SendDone(i, outcome)

SpecForms == InitForms /\ [][NextForms]_vars

\* The files written of a kind.
Written(kind) == {k \in 1..Len(formFiles) : formFiles[k].kind = kind}

\* Request i has written its record: the file it wrote is stored and is of
\* its kind.
HasWritten(i) ==
    /\ freq[i].file \in 1..Len(formFiles)
    /\ formFiles[freq[i].file].by = i
    /\ formFiles[freq[i].file].kind =
           (IF freq[i].kind = "apply" THEN "lead" ELSE "agreement")

\* C22: a failed notification never rolls back or blocks the record write:
\* when the send is attempted the record and the funnel count are written;
\* whatever the send gives, returning or raising, the files and the metrics
\* document stay as they are and the request ends with the success page.
C22_SendNeverUndoesTheWrite ==
    /\ [](\A i \in Reqs : fpc[i] = "send" =>
              /\ HasWritten(i)
              /\ load_metrics["apply"] = Cardinality(Written("lead"))
              /\ load_metrics["enroll"] = Cardinality(Written("agreement")))
    /\ [][\A i \in Reqs : (fpc[i] = "send" /\ fpc'[i] = "idle") =>
              /\ formFiles' = formFiles
              /\ metricsFile' = metricsFile
              /\ fres'[i][1] = "success"]_vars
    /\ [][Len(formFiles') >= Len(formFiles) /\
          SubSeq(formFiles', 1, Len(formFiles)) = formFiles]_vars

\* C22 witness: an /apply whose send raised and an /enroll whose send
\* delivered nothing have both ended with the success page, their records
\* stored and counted.
C22_Witness ==
    /\ fres[1] = <<"success", "raised">> /\ freq[1].kind = "apply"
    /\ fres[2] = <<"success", "not_sent">> /\ freq[2].kind = "enroll"
    /\ HasWritten(1) /\ HasWritten(2)
    /\ load_metrics["apply"] >= 1 /\ load_metrics["enroll"] >= 1

\* C23 as stated: the funnel counts decrease along the stages.
C23_FunnelDecreasing ==
    /\ load_metrics["home"] >= load_metrics["login"]
    /\ load_metrics["login"] >= load_metrics["apply"]
    /\ load_metrics["apply"] >= load_metrics["enroll"]

\* C23 as amended: no count of the funnel ever decreases, the apply count is
\* the number of leads submitted and the enroll count the number of
\* agreements submitted; the counts are not ordered along the stages.
C23_FunnelCountsAccumulate ==
    /\ [][\A k \in Stages : load_metrics'[k] >= load_metrics[k]]_vars
    /\ [](/\ load_metrics["apply"] = Cardinality(Written("lead"))
          /\ load_metrics["enroll"] = Cardinality(Written("agreement")))

\* C23 witness: after one home view, one /apply and one /enroll the counts
\* are 1, 0, 1, 1.
C23_Witness ==
    /\ load_metrics["home"] = 1 /\ load_metrics["login"] = 0
    /\ load_metrics["apply"] = 1 /\ load_metrics["enroll"] = 1
    /\ Len(formFiles) = 2

\* ---- The fields an update leaves alone --------------------------------------

\* The fields of a lead written at its creation.
CreationKeys ==
    DocKeys \ {"status", "status_updated_at", "tags", "note", "next_contact", "amount"}

\* C24: no update changes a lead's creation fields or removes a record: in
\* every step of the status and meta updates of the admin endpoints and the
\* bot commands, a lead file that exists still exists, and the creation fields
\* of a stored lead keep their values; only status, status_updated_at, tags,
\* note and next_contact can differ.
C24_UpdatesKeepCreationFields ==
    [][\A f \in LeadNames :
          /\ files[f][1] # "missing" => files'[f][1] # "missing"
          /\ files[f][1] = "dict" =>
                 /\ files'[f][1] = "dict"
                 /\ \A k \in CreationKeys : files'[f][2][k] = files[f][2][k]]_vars

\* C24 witness: a lead created at the start has, later, a status with its
\* stamp and a note, and still the timestamp and the name it was created with.
C24_Witness ==
    \E f \in LeadNames :
        /\ files[f][1] = "dict"
        /\ files[f][2].status # None /\ files[f][2].status_updated_at # None
        /\ files[f][2].note # None
        /\ files[f][2].timestamp = Some(StartTime) /\ files[f][2].name = Some("Anna")
        /\ files[f][2].status_updated_at # Some(StartTime)

\* ---- The stale leads of the admin panel --------------------------------------

\* stale_leads[:6]
StaleShown == 6

\* The age in hours of `(now_dt - created_at).total_seconds() / 3600`.
AgeHours(item, clock) == clock - StampOf(item)

\* The stale leads before the cut, with an age limit that is exclusive.
stale_found_strict(leads_all, clock) ==
    LET IsStale(item) ==
            /\ item.timestamp # None /\ item.timestamp # Some(0)
            /\ status_from_item(item, clock) = "new"
            /\ AgeHours(item, clock) > Day
        Entry(item) == [name |-> item.name, course |-> item.course,
                        age |-> AgeHours(item, clock)]
    IN  MapSeq(SelectSeq(leads_all, IsStale), Entry)

\* _admin_panel_impl: the loop over leads_all that appends to stale_leads.
stale_found(leads_all, clock) ==
    LET IsStale(item) ==
            /\ item.timestamp # None /\ item.timestamp # Some(0)
            /\ status_from_item(item, clock) = "new"
            /\ AgeHours(item, clock) >= Day
        Entry(item) == [name |-> item.name, course |-> item.course,
                        age |-> AgeHours(item, clock)]
    IN  MapSeq(SelectSeq(leads_all, IsStale), Entry)

\* sorted(stale_leads, key=age, reverse=True)[:6]
stale_leads(leads_all, clock) ==
    LET found == stale_found(leads_all, clock)
        key == [x \in Range(found) |-> x.age]
    IN  Slice(SortedReverse(found, key), 0, StaleShown)

\* The leads of the panel: one with the manual status "new" created at the
\* first hour, one without a manual status of the age of a day exactly, one
\* with the manual status "new" and no timestamp, one without a manual status
\* created at the first hour, and one without a manual status created an hour
\* ago.
StaleRecords(clock) ==
    {[timestamp |-> Some(1), name |-> Some("Anna"), course |-> None,
      status |-> Some("new")],
     [timestamp |-> Some(clock - Day), name |-> Some("boris"), course |-> None,
      status |-> None],
     [timestamp |-> None, name |-> Some("Anna"), course |-> None,
      status |-> Some("new")],
     [timestamp |-> Some(1), name |-> Some("boris"), course |-> None,
      status |-> None],
     [timestamp |-> Some(clock - 1), name |-> Some("Anna"), course |-> None,
      status |-> None]}

\* The leads stored are some leads in any order, followed by some more with
\* the manual status "new".
MaxMixed == 3

MaxManual == 5

ManualNew == [timestamp |-> Some(1), name |-> Some("Anna"), course |-> None,
              status |-> Some("new")]

InitStale ==
    /\ now = StartTime + 2 * Day
    /\ \E mixed \in SeqsUpTo(StaleRecords(now), MaxMixed), k \in 0..MaxManual :
           args = [leads_all |-> mixed \o [i \in 1..k |-> ManualNew]]
    /\ result = <<>>
    /\ WlIdle /\ TeleIdle /\ ViewIdle /\ StoreIdle /\ LoadIdle /\ SiteIdle

\* GET /admin: the stale leads shown.
StaleLeads ==
    /\ result = <<>>
    /\ result' = <<"stale_leads", stale_leads(args.leads_all, now)>>
    /\ UNCHANGED <<args, notCall>>

NextStale == StaleLeads

SpecStale == InitStale /\ [][NextStale]_vars

\* The places of the leads that have a timestamp, the derived status "new"
\* and an age of at least 24 hours.
StalePlaces ==
    {i \in 1..Len(args.leads_all) :
        LET item == args.leads_all[i]
        IN  /\ item.timestamp # None
            /\ status_from_item(item, now) = "new"
            /\ now - item.timestamp[1] >= Day}

\* The number of stale leads of the age a, stored and reported.
StaleOfAge(a) ==
    Cardinality({i \in StalePlaces : now - args.leads_all[i].timestamp[1] = a})

ReportedOfAge(a) ==
    Cardinality({k \in 1..Len(result[2]) : result[2][k].age = a})

StaleAges == {now - args.leads_all[i].timestamp[1] : i \in StalePlaces}

pipeline_order ==
    <<"new", "contacted", "qualified", "call_scheduled", "paid", "lost", "archived">>

\* A bucket choice that does not collapse "closed".
pipeline_key_closed_kept(status_key) ==
    LET collapsed == IF status_key = "in_progress" THEN "contacted" ELSE status_key
    IN  IF collapsed \notin Range(pipeline_order) THEN "archived" ELSE collapsed

\* The three `if`s of the loop over leads: the bucket of a derived status.
pipeline_key(status_key) ==
    LET contacted == IF status_key = "in_progress" THEN "contacted" ELSE status_key
        lost == IF contacted = "closed" THEN "lost" ELSE contacted
    IN  IF lost \notin Range(pipeline_order) THEN "archived" ELSE lost

\* pipeline_counts after the loop over the first n leads.
RECURSIVE pipeline_counts(_, _, _)
pipeline_counts(leads, n, clock) ==
    IF n = 0 THEN [key \in Range(pipeline_order) |-> 0]
    ELSE LET before == pipeline_counts(leads, n - 1, clock)
             status_key == pipeline_key(status_from_item(leads[n], clock))
         IN  [before EXCEPT ![status_key] = @ + 1]

\* max(pipeline_counts.values()), 1 when that is 0.
pipeline_max(counts) ==
    LET largest == CHOOSE c \in {counts[k] : k \in DOMAIN counts} :
                       \A k \in DOMAIN counts : counts[k] <= c
    IN  IF largest = 0 THEN 1 ELSE largest

\* round(part / total * 100, 1) in tenths of a percent: round() takes the
\* nearest tenth and of two equally near ones the even one.
RoundTenths(part, total) ==
    LET q == (part * 1000) \div total
        r == (part * 1000) % total
    IN  IF 2 * r > total \/ (2 * r = total /\ q % 2 = 1) THEN q + 1 ELSE q

\* pipeline_steps: key, count and pct (in tenths of a percent) of each bucket.
pipeline_steps(leads, clock) ==
    LET counts == pipeline_counts(leads, Len(leads), clock)
    IN  [i \in 1..Len(pipeline_order) |->
            [key |-> pipeline_order[i],
             count |-> counts[pipeline_order[i]],
             pct |-> RoundTenths(counts[pipeline_order[i]], pipeline_max(counts))]]

\* The filtered leads of the panel: one of each manual status, one with a
\* manual status that is no key of STATUS_META, and leads without a manual
\* status that are an hour, two days and more than a week old or have no
\* timestamp.
PipelineRecords(clock) ==
    {[timestamp |-> Some(clock - 1), name |-> None, course |-> None,
      status |-> Some(st)] : st \in STATUS_META \cup {"PAID"}}
    \cup {[timestamp |-> ts, name |-> None, course |-> None, status |-> None] :
            ts \in {Some(clock - 1), Some(clock - 2 * Day), Some(1), None}}

MaxPipeline == 3

InitPipeline ==
    /\ now = StartTime + Week + Day
    /\ args \in [leads : SeqsUpTo(PipelineRecords(now), MaxPipeline)]
    /\ result = <<>>
    /\ WlIdle /\ TeleIdle /\ ViewIdle /\ StoreIdle /\ LoadIdle /\ SiteIdle

\* GET /admin: the pipeline shown.
PipelineSteps ==
    /\ result = <<>>
    /\ result' = <<"pipeline_steps", pipeline_steps(args.leads, now)>>
    /\ UNCHANGED <<args, notCall>>

NextPipeline == PipelineSteps

SpecPipeline == InitPipeline /\ [][NextPipeline]_vars

\* The seven buckets.
Buckets ==
    {"new", "contacted", "qualified", "call_scheduled", "paid", "lost", "archived"}

\* The bucket of the lead at place i: that of its derived status, with
\* in_progress counted as contacted, closed as lost and any other status that
\* is no bucket as archived.
BucketOfLead(i) ==
    LET st == status_from_item(args.leads[i], now)
    IN  CASE st = "in_progress" -> "contacted"
          [] st = "closed" -> "lost"
          [] st \in Buckets -> st
          [] OTHER -> "archived"

RECURSIVE SumCounts(_, _)
SumCounts(steps, n) == IF n = 0 THEN 0 ELSE SumCounts(steps, n - 1) + steps[n].count

\* C26: the pipeline has the seven buckets, each lead of the filtered set is
\* counted in exactly the bucket of its derived status (in_progress as
\* contacted, closed as lost, anything else unrecognized as archived), the
\* counts sum to the number of leads, and each percentage is the count
\* relative to the largest count, with a denominator of at least 1, to the
\* nearest tenth.
C26_PipelineBuckets ==
    result # <<>> =>
        LET steps == result[2]
            largest == CHOOSE c \in {steps[k].count : k \in 1..Len(steps)} :
                           \A k \in 1..Len(steps) : steps[k].count <= c
            denominator == IF largest >= 1 THEN largest ELSE 1
        IN  /\ Len(steps) = 7
            /\ {steps[k].key : k \in 1..7} = Buckets
            /\ \A k \in 1..7 :
                   steps[k].count =
                       Cardinality({i \in 1..Len(args.leads) :
                                       BucketOfLead(i) = steps[k].key})
            /\ SumCounts(steps, 7) = Len(args.leads)
            /\ \A k \in 1..7 :
                   LET off == steps[k].pct * denominator - steps[k].count * 1000
                   IN  2 * off <= denominator /\ -2 * off <= denominator

\* C26 witness: a lead in progress by its age, a closed lead and a lead set
\* to contacted give contacted 2 at 100 percent and lost 1 at 50 percent.
C26_Witness ==
    /\ result # <<>> /\ Len(args.leads) = 3
    /\ args.leads[1].status = None /\ status_from_item(args.leads[1], now) = "in_progress"
    /\ args.leads[2].status = Some("closed")
    /\ args.leads[3].status = Some("contacted")
    /\ result[2][2] = [key |-> "contacted", count |-> 2, pct |-> 1000]
    /\ result[2][6] = [key |-> "lost", count |-> 1, pct |-> 500]

\* ---- The whitelist under the admin's requests --------------------------------

\* C27: once loaded, the in-memory whitelist is never empty and
\* get_admin_ids() is never empty, whatever whitelist-update and
\* whitelist-remove requests follow; an update whose text yields no integer
\* and a removal that would delete the only remaining id leave the whitelist
\* and its file unchanged.
C27_WhitelistNeverEmpty ==
    /\ [](wlLast[1] # "boot" =>
              /\ WHITELIST_IDS # <<>>
              /\ get_admin_ids(WHITELIST_IDS) # {})
    /\ [][(wlLast'[1] = "update" /\ wlLast'[2] = "no_integer") =>
              UNCHANGED <<WHITELIST_IDS, wlFile>>]_vars
    /\ [][(wlLast'[1] = "remove" /\ Range(WHITELIST_IDS) \subseteq {wlLast'[2]}) =>
              UNCHANGED <<WHITELIST_IDS, wlFile>>]_vars

\* C27 witness: the admin asked to remove the only id of the whitelist, and
\* the whitelist and its file still hold it.
C27_Witness ==
    /\ wlLast[1] = "remove"
    /\ WHITELIST_IDS = <<wlLast[2]>>
    /\ wlFile = FileOfIds(WHITELIST_IDS)
    /\ get_admin_ids(WHITELIST_IDS) = {wlLast[2]}

\* ---- The admin's endpoints and the bot's commands by whoever asks ------------

\* The telegram users who write to the bot, in a whitelist or not.
AuthBotUsers == AllIds \cup {default_ids[1]}

\* The requests of the model: one of each endpoint and of each command, each
\* <<process, operation, file name, value>>, with the outcome its handler
\* computes for the user.
AuthOutcome(user, r) ==
    CASE r[2] = "lead_status" -> admin_update_lead_status(user, r[3], r[4], now)
      [] r[2] = "lead_meta" -> admin_update_lead_meta(user, r[3], r[4])
      [] r[2] = "agreement_status" -> admin_update_agreement_status(user, r[3], r[4])
      [] r[2] = "agreement_amount" -> admin_update_agreement_amount(user, r[3], r[4])
      [] r[2] = "bot_status" -> bot_status(user, r[3], r[4], now)
      [] r[2] = "bot_callback" -> bot_status_callback(user, r[3], r[4], now)
      [] r[2] = "bot_note" -> bot_note(user, r[3], r[4])
      [] r[2] = "bot_tags" -> bot_tags(user, r[3], r[4])
      [] r[2] = "bot_next" -> bot_next(user, r[3], r[4])

WebRequests ==
    {<<"web", "lead_status", "lead_1.json", "paid">>,
     <<"web", "lead_meta", "lead_1.json",
       [tags |-> "", note |-> "call", next_contact |-> ""]>>,
     <<"web", "agreement_status", "agreement_1.json", "paid">>,
     <<"web", "agreement_amount", "agreement_1.json", "1 500,50">>}

BotRequests ==
    {<<"bot", "bot_status", "lead_1.json", "paid">>,
     <<"bot", "bot_callback", "lead_1.json", "paid">>,
     <<"bot", "bot_note", "lead_1.json", "call">>,
     <<"bot", "bot_tags", "lead_1.json", "#vip">>,
     <<"bot", "bot_next", "lead_1.json", "2026-02-05">>}

\* The commands the bot receives in the model: /status and a status button.
BotSent == {r \in BotRequests : r[2] \in {"bot_status", "bot_callback"}}

\* The whitelist forms the web process receives in the model.
AuthForms == {<<<<111>>>>}

\* A request of the web process from any session.
AuthWeb ==
    \E user \in Sessions, r \in WebRequests :
        Begin("web", <<r[2], r[3], r[4]>>, AuthOutcome(user, r))

\* A message or a button press for the bot from any telegram user.
AuthBot ==
    \E user \in AuthBotUsers, r \in BotSent :
        Begin("bot", <<r[2], r[3], r[4]>>, AuthOutcome(user, r))

\* A whitelist request of the web process from any session.
AuthWhitelist ==
    \/ \E user \in Sessions, raw \in AuthForms : admin_update_whitelist(user, raw)
    \/ \E user \in Sessions : admin_remove_whitelist(user, 111)

\* Both processes have started on an installation without a whitelist file;
\* a lead and an agreement are stored.
InitAuth ==
    /\ now = StartTime
    /\ files = [m \in FileNames |-> DictFile(NewDoc(StartTime))]
    /\ pc = [p \in Procs |-> "idle"]
    /\ req = [p \in Procs |-> <<>>]
    /\ data = [p \in Procs |-> <<>>]
    /\ ret = [p \in Procs |-> "none"]
    /\ stale = [p \in Procs |-> FALSE]
    /\ wlFile = FileAfterLoad(<<"missing">>)
    /\ WHITELIST_IDS = load_whitelist(<<"missing">>)
    /\ wlLast = <<"load", default_ids>>
    /\ TeleIdle /\ ViewIdle /\ LoadIdle /\ CallIdle /\ SiteIdle

NextAuth ==
    \/ AuthWeb
    \/ AuthBot
    \/ AuthWhitelist
    \/ \E p \in Procs : Save(p)

SpecAuth == InitAuth /\ [][NextAuth]_vars

\* The session is a telegram user in get_admin_ids().
IsAdminSession(user) ==
    /\ user # <<>>
    /\ user[1] = "telegram"
    /\ user[2] \in get_admin_ids(WHITELIST_IDS)

\* C28: mutations through the admin surface are authorized: whatever the
\* whitelist and the files are, every admin mutation endpoint refuses a session
\* that is not a telegram user in get_admin_ids(), and every bot command and
\* status button ignores a user id that is not in the current whitelist,
\* before anything is written; record files change only when an admitted
\* request saves, and the whitelist and its file only by an admitted
\* whitelist request.
C28_MutationsAuthorized ==
    /\ [](\A user \in Sessions : ~IsAdminSession(user) =>
              /\ \A r \in WebRequests : AuthOutcome(user, r) = <<"denied">>
              /\ \A raw \in SeqsUpTo(Tokens, 1) :
                     update_whitelist_outcome(user, raw) = <<"denied">>
              /\ \A target \in AllIds :
                     remove_whitelist_outcome(user, target) = <<"denied">>)
    /\ [](\A user \in AuthBotUsers : user \notin current_whitelist(wlFile) =>
              \A r \in BotRequests : AuthOutcome(user, r) = <<"denied">>)
    /\ [][\A p \in Procs : (ret'[p] = "denied" /\ ret[p] # "denied") =>
              (files' = files /\ pc'[p] = "idle" /\ UNCHANGED wlVars)]_vars
    /\ [][files' # files => \E p \in Procs : pc[p] = "loaded" /\ pc'[p] = "idle"]_vars
    /\ [][(wlLast' # wlLast /\ wlLast'[1] = "denied") =>
              UNCHANGED <<files, wlFile, WHITELIST_IDS>>]_vars

\* C28 witness: after an admin replaced the whitelist, a web request of the
\* former admin, a bot command of a user outside the whitelist and a whitelist
\* request of a session that is no admin were refused in turn, and the lead
\* and the agreement are as they were stored.
C28_Witness ==
    /\ ret["web"] = "denied" /\ ret["bot"] = "denied"
    /\ wlLast[1] = "denied"
    /\ WHITELIST_IDS = <<111>>
    /\ ~IsAdminSession(<<"telegram", target_admin_id>>)
    /\ target_admin_id \notin current_whitelist(wlFile)
    /\ files = [m \in FileNames |-> DictFile(NewDoc(StartTime))]

\* ---- The contract of an agreement: send and sign ------------------------------

\* The tokens of the requests: the stored agreement's token and one that no
\* agreement carries.
ContractTokens == {"t1", "zz"}

\* The channel field of the send form: empty, the three channels, an unknown one.
ChannelTexts == {"", "email", "telegram", "vk", "fax"}

\* The email field of the send form.
ManualEmails == {"", "m@x"}

\* The stored agreement before its contract was sent.
NewAgreement ==
    [contract_token |-> "t1", contract_status |-> None, contract_channel |-> None,
     contract_sent_at |-> None, contract_signed_at |-> None,
     contract_email_override |-> None]

\* core.find_agreement_by_token(token): the agreement that carries the token,
\* None when there is none.
find_agreement_by_token(token) ==
    IF contractFile.contract_token = token THEN Some(contractFile) ELSE None

\* contract_send after the message left: 'sent' unless the agreement in memory
\* is signed, the channel and the time of the send.
SentAgreement(agreement, channel, clock) ==
    [agreement EXCEPT !.contract_status = IF @ # Some("signed") THEN Some("sent") ELSE @,
                      !.contract_channel = Some(channel),
                      !.contract_sent_at = Some(clock)]

\* contract_sign on the agreement in memory.
SignedAgreement(agreement, clock) ==
    [agreement EXCEPT !.contract_status = Some("signed"),
                      !.contract_signed_at = Some(clock)]

\* POST /contract/{token}/send up to its first await or its return: the
\* agreement is read, the channel is the form's or the user's default; without
\* a recipient or with an unknown channel the request ends with an error; the
\* email is sent by a blocking call, after which the agreement is saved unless
\* the call raised; the telegram and vk messages are awaited.
contract_send(i, token, channel_text, manual_email, default, recipient, outcome) ==
    /\ cpc[i] = "idle"
    /\ LET found == find_agreement_by_token(token)
           channel == IF Strip(channel_text) = "" THEN default ELSE Strip(channel_text)
       IN  IF found = None
           THEN /\ cres' = <<i, "404">>
                /\ UNCHANGED <<contractFile, cpc, creq>>
           ELSE IF channel \notin {"email", "telegram", "vk"} \/ ~recipient
           THEN /\ cres' = <<i, "error">>
                /\ UNCHANGED <<contractFile, cpc, creq>>
           ELSE IF channel = "email"
           THEN IF outcome = "raised"
                THEN /\ cres' = <<i, "error">>
                     /\ UNCHANGED <<contractFile, cpc, creq>>
                ELSE /\ contractFile' =
                            SentAgreement(
                                IF manual_email # ""
                                THEN [found[1] EXCEPT
                                         !.contract_email_override = Some(manual_email)]
                                ELSE found[1], channel, now)
                     /\ cres' = <<i, "sent">>
                     /\ UNCHANGED <<cpc, creq>>
           ELSE /\ cpc' = [cpc EXCEPT ![i] = "sending"]
                /\ creq' = [creq EXCEPT ![i] = [agreement |-> found[1],
                                                channel |-> channel]]
                /\ UNCHANGED <<contractFile, cres>>
    /\ UNCHANGED <<now, notContract>>

\* contract_send after the awaited send_telegram_message or send_vk_message:
\* an exception ends the request, otherwise the agreement in memory is marked
\* and saved.
contract_send_done(i, outcome) ==
    /\ cpc[i] = "sending"
    /\ IF outcome = "raised"
       THEN /\ cres' = <<i, "error">>
            /\ UNCHANGED contractFile
       ELSE /\ contractFile' = SentAgreement(creq[i].agreement, creq[i].channel, now)
            /\ cres' = <<i, "sent">>
    /\ cpc' = [cpc EXCEPT ![i] = "idle"]
    /\ creq' = [creq EXCEPT ![i] = <<>>]
    /\ UNCHANGED <<now, notContract>>

\* POST /contract/{token}/sign
contract_sign(i, token) ==
    /\ cpc[i] = "idle"
    /\ LET found == find_agreement_by_token(token)
       IN  IF found = None
           THEN /\ cres' = <<i, "404">>
                /\ UNCHANGED contractFile
           ELSE /\ contractFile' = SignedAgreement(found[1], now)
                /\ cres' = <<i, "signed">>
    /\ UNCHANGED <<cpc, creq, now, notContract>>

\* The hours the contract requests are spread over.
MaxContractHours == 1

ContractTick ==
    /\ now < StartTime + MaxContractHours
    /\ now' = now + 1
    /\ UNCHANGED <<contractVars, notContract>>

InitContract ==
    /\ now = StartTime
    /\ contractFile = NewAgreement
    /\ cpc = [i \in Reqs |-> "idle"]
    /\ creq = [i \in Reqs |-> <<>>]
    /\ cres = <<>>
    /\ WlIdle /\ TeleIdle /\ ViewIdle /\ StoreIdle /\ LoadIdle /\ CallIdle
    /\ FormIdle /\ LoginIdle

NextContract ==
    \/ \E i \in Reqs, token \in ContractTokens, channel_text \in ChannelTexts,
          manual_email \in ManualEmails, default \in {"email", "telegram"},
          recipient \in BOOLEAN, outcome \in {"sent", "raised"} :
           contract_send(i, token, channel_text, manual_email, default, recipient,
                         outcome)
    \/ \E i \in Reqs, outcome \in {"sent", "raised"} : contract_send_done(i, outcome)
    \/ \E i \in Reqs, token \in ContractTokens : contract_sign(i, token)
    \/ ContractTick

SpecContract == InitContract /\ [][NextContract]_vars

\* C29: the contract status 'signed' is absorbing: once a sign request has
\* stored it, no step of a send or a sign request stores another status.
C29_SignedIsAbsorbing ==
    [][contractFile.contract_status = Some("signed") =>
           contractFile'.contract_status = Some("signed")]_vars

\* ---- The login by an email code ---------------------------------------------

\* The lifetime of a code in seconds.
CodeTtl == 600

\* The clock of this part advances by half a lifetime, MaxLoginSteps times.
CodeStep == CodeTtl \div 2

MaxLoginSteps == 3

\* The email addresses codes are kept for, and the texts of the email field.
Emails == {"a@x", "b@x"}

EmailTexts == Emails \cup {"", " A@X "}

\* str(form.get("email", "")).strip().lower() on the texts the model uses.
EmailOf(text) ==
    CASE text = " A@X " -> "a@x"
      [] OTHER -> text

\* The values of f"{secrets.randbelow(10 ** 6):06d}" in the model, and the
\* texts of the code field.
IssuedCodes == {"000001", "000002"}

CodeTexts == IssuedCodes \cup {"", " 000001 "}

\* str(form.get("code", "")).strip() on the texts the model uses.
CodeOf(text) ==
    CASE text = " 000001 " -> "000001"
      [] OTHER -> text

\* codes.get(email)
codes_get(codes, email) ==
    IF email \in DOMAIN codes THEN codes[email] ELSE None

\* A check that does not look at the expiry.
login_verify_ok_any_time(entry, code, clock) ==
    /\ entry # None
    /\ entry[1].code = code

\* login_verify's test, negated: there is an entry, its code is the submitted
\* one and its expiry is not before the clock.
login_verify_ok(entry, code, clock) ==
    /\ entry # None
    /\ entry[1].code = code
    /\ ~(entry[1].expires < clock)

\* POST /login/email: without an email the login page with an error, otherwise
\* a fresh code replaces the email's entry and the verify page is shown.
login_email(text, code) ==
    LET email == EmailOf(text)
    IN  /\ IF email = ""
           THEN /\ loginLast' = <<"email", email, code, "error">>
                /\ UNCHANGED <<codesFile, lastIssue>>
           ELSE /\ codesFile' = [codesFile EXCEPT
                       ![email] = Some([code |-> code, expires |-> seconds + CodeTtl])]
                /\ lastIssue' = [lastIssue EXCEPT
                       ![email] = Some([code |-> code, time |-> seconds])]
                /\ loginLast' = <<"email", email, code, "verify">>
        /\ UNCHANGED <<seconds, usersFile, session, notLogin>>

\* POST /login/verify: the verify page with an error when the test fails,
\* otherwise the user is stored, becomes the session's user, and the entry is
\* removed from the codes.
login_verify(text, code_text) ==
    LET email == EmailOf(text)
        code == CodeOf(code_text)
    IN  /\ IF ~login_verify_ok(codes_get(codesFile, email), code, seconds)
           THEN /\ loginLast' = <<"verify", email, code, "error">>
                /\ UNCHANGED <<codesFile, usersFile, session>>
           ELSE /\ usersFile' = usersFile \cup {<<"email", email>>}
                /\ session' = Some(<<"email", email>>)
                /\ codesFile' = [codesFile EXCEPT ![email] = None]
                /\ loginLast' = <<"verify", email, code, "session">>
        /\ UNCHANGED <<seconds, lastIssue, notLogin>>

LoginTick ==
    /\ seconds + CodeStep <= MaxLoginSteps * CodeStep
    /\ seconds' = seconds + CodeStep
    /\ UNCHANGED <<codesFile, usersFile, session, lastIssue, loginLast, notLogin>>

InitLogin ==
    /\ now = StartTime
    /\ seconds = 0
    /\ codesFile = [email \in Emails |-> None]
    /\ usersFile = {}
    /\ session = None
    /\ lastIssue = [email \in Emails |-> None]
    /\ loginLast = <<>>
    /\ WlIdle /\ TeleIdle /\ ViewIdle /\ StoreIdle /\ LoadIdle /\ CallIdle
    /\ FormIdle /\ ContractIdle

NextLogin ==
    \/ \E text \in EmailTexts, code \in IssuedCodes : login_email(text, code)
    \/ \E text \in EmailTexts, code_text \in CodeTexts : login_verify(text, code_text)
    \/ LoginTick

SpecLogin == InitLogin /\ [][NextLogin]_vars

\* The step is a verify request that ended with a session.
VerifiedStep ==
    /\ loginLast' # loginLast
    /\ loginLast'[1] = "verify"
    /\ loginLast'[4] = "session"

\* C30: a verify request establishes a session only when the submitted code is
\* the one issued last for the email, that code was not used since, and the
\* clock is at most 600 seconds after its issue; the verification removes the
\* entry, so the same code fails from then on; a session is set by no other
\* step; a stored entry is always the code issued last with the expiry issue
\* time + 600, so an earlier code of the email is no longer accepted.
C30_CodeLogin ==
    /\ [][VerifiedStep =>
              LET email == loginLast'[2]
                  code == loginLast'[3]
              IN  /\ email \in Emails
                  /\ lastIssue[email] # None
                  /\ lastIssue[email][1].code = code
                  /\ seconds <= lastIssue[email][1].time + CodeTtl
                  /\ codesFile[email] # None
                  /\ codesFile'[email] = None
                  /\ session' = Some(<<"email", email>>)
                  /\ <<"email", email>> \in usersFile'
                  /\ ~login_verify_ok(codes_get(codesFile', email), code, seconds')]_vars
    /\ [][session' # session => VerifiedStep]_vars
    /\ [](\A email \in Emails : codesFile[email] # None =>
              /\ lastIssue[email] # None
              /\ codesFile[email][1] = [code |-> lastIssue[email][1].code,
                                        expires |-> lastIssue[email][1].time + CodeTtl])
    /\ [](\A email \in Emails \cup {""}, code \in IssuedCodes \cup {""} :
              login_verify_ok(codes_get(codesFile, email), code, seconds) =>
                  /\ email \in Emails
                  /\ lastIssue[email] # None
                  /\ lastIssue[email][1].code = code
                  /\ seconds <= lastIssue[email][1].time + CodeTtl)

\* C30 witness: the code issued last for a@x was accepted exactly 600 seconds
\* after its issue, its entry is gone and the user is stored, while the code
\* of b@x is still kept.
C30_Witness ==
    /\ loginLast = <<"verify", "a@x", "000002", "session">>
    /\ lastIssue["a@x"] = Some([code |-> "000002", time |-> seconds - CodeTtl])
    /\ codesFile["a@x"] = None
    /\ codesFile["b@x"] # None
    /\ session = Some(<<"email", "a@x">>)
    /\ usersFile = {<<"email", "a@x">>}

\* ---- The derived status as a function of the record and the clock ------

\* Oldest age, in hours, at which a record's status is derived.
MaxAge == 241

\* Stored status strings: the recognized ones of both kinds and one that no
\* table recognizes.
StoredStatuses == STATUS_META \cup AGREEMENT_STATUS_META \cup {"PAID"}

\* The clock advances by d hours.
Tick(d, limit) ==
    /\ now + d <= limit
    /\ now' = now + d
    /\ viewed' = <<>>
    /\ UNCHANGED <<viewItem, viewKind, notView>>

\* The admin panel and the bot derive the status of the record.
View ==
    /\ viewed' = IF viewKind = "lead"
                 THEN <<status_from_item(viewItem, now), bot_status_from_item(viewItem, now)>>
                 ELSE <<agreement_status_from_item(viewItem, now)>>
    /\ UNCHANGED <<now, viewItem, viewKind, notView>>

InitDerive ==
    /\ now = StartTime
    /\ viewKind \in {"lead", "agreement"}
    /\ viewItem \in [timestamp : {Some(StartTime)}, status : Opt(StoredStatuses)]
    /\ viewed = <<>>
    /\ WlIdle /\ TeleIdle /\ StoreIdle /\ LoadIdle /\ CallIdle /\ SiteIdle

NextDerive ==
    \/ Tick(1, StartTime + MaxAge)
    \/ View

SpecDerive == InitDerive /\ [][NextDerive]_vars

\* The age of the viewed record, in hours.
ViewAge == now - viewItem.timestamp[1]

\* C6: the derived status of a lead is its stored status when that is a
\* recognized value; otherwise it is "new" up to an age of 1 day, "in_progress"
\* up to 7 days and "archived" after that, the same in the admin panel and in
\* the bot.  A lead created at T with no manual status is "new" at T+1h,
\* "in_progress" at T+3d and "archived" at T+10d.
C6_LeadDerivedStatus ==
    (viewKind = "lead" /\ viewed # <<>>) =>
        /\ viewed[1] = viewed[2]
        /\ (viewItem.status # None /\ viewItem.status[1] \in STATUS_META)
               => viewed[1] = viewItem.status[1]
        /\ (viewItem.status = None \/ viewItem.status[1] \notin STATUS_META)
               => /\ ViewAge <= Day => viewed[1] = "new"
                  /\ (Day < ViewAge /\ ViewAge <= 7 * Day) => viewed[1] = "in_progress"
                  /\ ViewAge > 7 * Day => viewed[1] = "archived"
        /\ viewItem.status = None
               => /\ ViewAge = 1 => viewed[1] = "new"
                  /\ ViewAge = 3 * Day => viewed[1] = "in_progress"
                  /\ ViewAge = 10 * Day => viewed[1] = "archived"

\* C6 witness: a lead with no manual status seen as archived 10 days after
\* its creation.
C6_Witness ==
    /\ viewKind = "lead"
    /\ viewItem.status = None
    /\ ViewAge = 10 * Day
    /\ viewed = <<"archived", "archived">>

C3_AdminPresentAndLast ==
    wlLast[1] # "boot" =>
        /\ target_admin_id \in Range(WHITELIST_IDS)
        /\ Len(WHITELIST_IDS) >= 2 => Last(WHITELIST_IDS) = target_admin_id

\* C3 (amended): right after load_whitelist the designated admin id is in the
\* list, and when the list has at least 3 entries it occupies a position
\* before the last one.
C3_AdminPresentAfterLoad ==
    wlLast[1] = "load" =>
        /\ target_admin_id \in Range(WHITELIST_IDS)
        /\ Len(WHITELIST_IDS) >= 3 => target_admin_id \in Range(Front(WHITELIST_IDS))

\* C3 witness: a load that found the admin id last and moved it before 222.
C3_Witness ==
    /\ wlLast = <<"load", <<111, 222, target_admin_id>>>>
    /\ WHITELIST_IDS = <<111, target_admin_id, 222>>

\* C4 (as stated in the specification): for a whitelist of at least 2 entries
\* admin rights go to the last element and to no other element.
C4_AdminIsLastElement ==
    Len(WHITELIST_IDS) >= 2 =>
        \A n \in AllIds :
            is_admin_user(<<"telegram", n>>, WHITELIST_IDS) <=> n = Last(WHITELIST_IDS)

\* C4 (amended): for a whitelist of at least 2 entries a session has admin
\* rights exactly when it is a telegram session whose id stands at a position
\* before the last one; an id that occurs only in the last position is a viewer.
C4_AdminsAreAllButLast ==
    Len(WHITELIST_IDS) >= 2 =>
        \A user \in Sessions :
            is_admin_user(user, WHITELIST_IDS) <=>
                /\ user # <<>>
                /\ user[1] = "telegram"
                /\ \E i \in 1..(Len(WHITELIST_IDS) - 1) : WHITELIST_IDS[i] = user[2]

\* C4 witness: a whitelist written by an admin request whose last entry has no
\* admin rights while its first entry has them.
C4_Witness ==
    /\ wlLast[1] = "update"
    /\ Len(WHITELIST_IDS) >= 2
    /\ ~is_admin_user(<<"telegram", Last(WHITELIST_IDS)>>, WHITELIST_IDS)
    /\ is_admin_user(<<"telegram", WHITELIST_IDS[1]>>, WHITELIST_IDS)

====
